---------------------------- MODULE Spec2Model ----------------------------
(***************************************************************************)
(* Glow Navigator: the directed multigraph of Glow objects, the lookup     *)
(* tables filled while it is built, and the interactive selection and      *)
(* traversal over it (src/glow_navigator/glow_navigator.py, glow_utils.py).*)
(*                                                                         *)
(* Python strings are sequences of one-character strings, so that          *)
(* formatting, splitting, serialising and regex matching are computed.     *)
(* A dict is a function; the empty dict is the empty function << >>.       *)
(***************************************************************************)
EXTENDS Integers, Sequences, FiniteSets, TLC

VARIABLES
    GLOW_GRAPH,      \* [node: key -> attribute dict, edge: <<u, v>> -> Seq(attribute dict)]
    COMMAND_LOOKUP,  \* command name -> list of owning entities
    MAX_LEVEL,       \* depth of expansion, 0 = unbounded
    IGNORE_TYPES,    \* list of type names left out of selection and traversal
    EDGE_MATCH,      \* whether select_nodes also matches edges
    nodes,           \* main(): the current result list of select_nodes
    func,            \* walk_tree: "successors" or "predecessors"
    stack,           \* walk_tree: the active calls, innermost last
    seen,            \* walk_tree: the shared seen list
    out,             \* walk_tree: what the current command has printed
    last,            \* the last call made on the graph or the tables, with its inputs and result
    FORMSTEP_LOOKUP, \* template or form step name -> template key
    FORMFLOW_LOOKUP, \* formflow name -> formflow key
    MODULE_LOOKUP,   \* module code -> module key
    files,           \* the records found on disk, in the order glob yields them
    pc               \* main(): "start", "prompt" (the command loop) or "exited"

vars == <<GLOW_GRAPH, COMMAND_LOOKUP, MAX_LEVEL, IGNORE_TYPES, EDGE_MATCH,
          nodes, func, stack, seen, out, last,
          FORMSTEP_LOOKUP, FORMFLOW_LOOKUP, MODULE_LOOKUP, files, pc>>

\* what the build owns besides the graph and the command table, and main's position
session == <<FORMSTEP_LOOKUP, FORMFLOW_LOOKUP, MODULE_LOOKUP, files, pc>>

-----------------------------------------------------------------------------
(* Bounds of the model *)

\* largest number of edges (parallel edges counted) of a graph drawn in Init
MaxEdges == 3
\* largest value given to $$max_level=
MaxLevelCap == 2
\* largest number of edges of a graph drawn for selection
MaxLinks == 2
\* largest number of owners registered under one command
MaxOwners == 2
\* largest number of edges added by the build steps
MaxBuildEdges == 3

-----------------------------------------------------------------------------
(* String literals *)

s_type      == <<"t","y","p","e">>
s_name      == <<"n","a","m","e">>
s_counts    == <<"c","o","u","n","t","s">>
s_link_type == <<"l","i","n","k","_","t","y","p","e">>
s_link      == <<"l","i","n","k">>
s_property  == <<"p","r","o","p","e","r","t","y">>
s_tile      == <<"t","i","l","e">>
s_A         == <<"A">>
s_B         == <<"B">>
s_C         == <<"C">>

EmptyDict == << >>

-----------------------------------------------------------------------------
(* Generic sequence helpers *)

Range(s) == {s[i] : i \in 1..Len(s)}

RECURSIVE SumOver(_, _)
SumOver(S, f) ==
    IF S = {} THEN 0
    ELSE LET x == CHOOSE y \in S : TRUE IN f[x] + SumOver(S \ {x}, f)

-----------------------------------------------------------------------------
(* Python str operations *)

UpperCase == <<"A","B","C","D","E","F","G","H","I","J","K","L","M",
               "N","O","P","Q","R","S","T","U","V","W","X","Y","Z">>
LowerCase == <<"a","b","c","d","e","f","g","h","i","j","k","l","m",
               "n","o","p","q","r","s","t","u","v","w","x","y","z">>
Digits    == <<"0","1","2","3","4","5","6","7","8","9">>

LowerTable == [c \in {UpperCase[i] : i \in 1..26} |->
                  LowerCase[CHOOSE i \in 1..26 : UpperCase[i] = c]]

LowerChar(c) == IF c \in DOMAIN LowerTable THEN LowerTable[c] ELSE c

\* str.lower()
lower(s) == [i \in 1..Len(s) |-> LowerChar(s[i])]

\* str.startswith(prefix)
startswith(s, prefix) ==
    /\ Len(prefix) <= Len(s)
    /\ SubSeq(s, 1, Len(prefix)) = prefix

\* the positions of the separator character in s
Positions(s, sep) == {i \in 1..Len(s) : s[i] = sep}

Max(S) == CHOOSE x \in S : \A y \in S : y <= x
Min(S) == CHOOSE x \in S : \A y \in S : x <= y

\* s.rsplit(sep)[-1]: the text after the last separator
rsplit_last(s, sep) ==
    IF Positions(s, sep) = {} THEN s
    ELSE SubSeq(s, Max(Positions(s, sep)) + 1, Len(s))

\* s.rsplit(sep)[0]: without maxsplit, the text before the first separator
rsplit_first(s, sep) ==
    IF Positions(s, sep) = {} THEN s
    ELSE SubSeq(s, 1, Min(Positions(s, sep)) - 1)

\* s.split(): the maximal runs of non-blank characters
RECURSIVE split(_)
split(s) ==
    IF s = << >> THEN << >>
    ELSE IF s[1] = " " THEN split(Tail(s))
    ELSE LET blanks == Positions(s, " ")
             stop   == IF blanks = {} THEN Len(s) + 1 ELSE Min(blanks)
         IN  <<SubSeq(s, 1, stop - 1)>> \o split(SubSeq(s, stop, Len(s)))

\* str(n) for n >= 0
RECURSIVE IntToStr(_)
IntToStr(n) ==
    IF n < 10 THEN <<Digits[n + 1]>>
    ELSE IntToStr(n \div 10) \o <<Digits[(n % 10) + 1]>>

IsDigit(c) == \E i \in 1..10 : Digits[i] = c

DigitValue(c) == (CHOOSE i \in 1..10 : Digits[i] = c) - 1

\* int(s) accepts a non-empty run of digits (a ValueError otherwise)
IsInt(s) == s # << >> /\ \A i \in 1..Len(s) : IsDigit(s[i])

RECURSIVE StrToInt(_)
StrToInt(s) ==
    IF s = << >> THEN 0
    ELSE 10 * StrToInt(SubSeq(s, 1, Len(s) - 1)) + DigitValue(s[Len(s)])

-----------------------------------------------------------------------------
(* networkx MultiDiGraph, as used by the program *)

has_node(graph, n) == n \in DOMAIN graph.node

successors(graph, n) == {v \in DOMAIN graph.node : <<n, v>> \in DOMAIN graph.edge}

predecessors(graph, n) == {u \in DOMAIN graph.node : <<u, n>> \in DOMAIN graph.edge}

\* get_edge_data(u, v): the attribute dicts of the parallel edges u -> v, by key
get_edge_data(graph, u, v) == graph.edge[<<u, v>>]

in_degree(graph, n) ==
    SumOver(predecessors(graph, n),
            [u \in predecessors(graph, n) |-> Len(graph.edge[<<u, n>>])])

out_degree(graph, n) ==
    SumOver(successors(graph, n),
            [v \in successors(graph, n) |-> Len(graph.edge[<<n, v>>])])

\* add_node(n, attrs): attrs are merged into the node's dict
add_node(graph, n, attrs) ==
    [graph EXCEPT !.node =
        IF n \in DOMAIN graph.node
        THEN [graph.node EXCEPT ![n] = attrs @@ graph.node[n]]
        ELSE (n :> attrs) @@ graph.node]

\* add_edge(u, v, attr_dict): u and v become nodes (without data) if they are
\* not nodes yet; the new edge takes the next key between u and v
add_edge(graph, u, v, attrs) ==
    LET withNodes == add_node(add_node(graph, u, EmptyDict), v, EmptyDict) IN
    [withNodes EXCEPT !.edge =
        IF <<u, v>> \in DOMAIN graph.edge
        THEN [graph.edge EXCEPT ![<<u, v>>] = Append(@, attrs)]
        ELSE (<<u, v>> :> <<attrs>>) @@ graph.edge]

neighbours(graph, direction, n) ==
    IF direction = "predecessors" THEN predecessors(graph, n) ELSE successors(graph, n)

-----------------------------------------------------------------------------
(* walk_tree *)

InList(x, list) == \E i \in 1..Len(list) : list[i] = x

\* "type" in node_data and node_data["type"] in IGNORE_TYPES
IgnoredData(node_data, ignore) ==
    /\ s_type \in DOMAIN node_data
    /\ InList(node_data[s_type], ignore)

\* a mutant of WalkEdgeData: only the first of the parallel edges is taken
WalkEdgeData_FirstOnly(graph, direction, target, node) ==
    IF direction = "predecessors"
    THEN <<get_edge_data(graph, node, target)[1]>>
    ELSE <<get_edge_data(graph, target, node)[1]>>

\* the edges printed for a neighbour: taken in the direction of the walk
WalkEdgeData(graph, direction, target, node) ==
    IF direction = "predecessors"
    THEN get_edge_data(graph, node, target)
    ELSE get_edge_data(graph, target, node)

\* a mutant of ShouldExpand: the seen list is not consulted
ShouldExpand_NoSeen(node, seenList, level, maxLevel) ==
    maxLevel = 0 \/ maxLevel > level

\* a mutant of ShouldExpand: the level test is off by one
ShouldExpand_OffByOne(node, seenList, level, maxLevel) ==
    /\ ~InList(node, seenList)
    /\ (maxLevel = 0 \/ maxLevel >= level)

\* if not node in seen and (MAX_LEVEL == 0 or MAX_LEVEL > level)
ShouldExpand(node, seenList, level, maxLevel) ==
    /\ ~InList(node, seenList)
    /\ (maxLevel = 0 \/ maxLevel > level)

\* a mutant of HasData: a node without data is treated like any other
HasData_Always(node_data) == TRUE

\* if node_data:
HasData(node_data) == DOMAIN node_data # {}

Frame(graph, direction, target, level) ==
    [target |-> target, level |-> level, todo |-> neighbours(graph, direction, target)]

Top == stack[Len(stack)]

Walking == stack # << >>

\* print_children / print_parents: walk_tree(graph, node, func=...), with
\* seen = None and level = 1; the call appends the target to seen
StartWalk(direction, target) ==
    /\ pc = "prompt"
    /\ ~Walking
    /\ has_node(GLOW_GRAPH, target)
    /\ func' = direction
    /\ seen' = <<target>>
    /\ stack' = <<Frame(GLOW_GRAPH, direction, target, 1)>>
    /\ out' = << >>
    /\ UNCHANGED <<session, GLOW_GRAPH, COMMAND_LOOKUP, MAX_LEVEL, IGNORE_TYPES, EDGE_MATCH,
                   nodes, last>>

print_children(parent) == StartWalk("successors", parent)

print_parents(child) == StartWalk("predecessors", child)

Rest(node) == [stack EXCEPT ![Len(stack)].todo = @ \ {node}]

\* one iteration of the loop: the neighbour's type is ignored
WalkSkipIgnored ==
    /\ Walking
    /\ \E node \in Top.todo :
        /\ IgnoredData(GLOW_GRAPH.node[node], IGNORE_TYPES)
        /\ stack' = Rest(node)
        /\ UNCHANGED <<session, seen, out>>
    /\ UNCHANGED <<session, GLOW_GRAPH, COMMAND_LOOKUP, MAX_LEVEL, IGNORE_TYPES, EDGE_MATCH,
                   nodes, func, last>>

\* one iteration of the loop: the neighbour has data; it is printed with its
\* edges, and walk_tree is called on it when ShouldExpand
WalkEmit ==
    /\ Walking
    /\ \E node \in Top.todo :
        LET node_data == GLOW_GRAPH.node[node]
            expand    == ShouldExpand(node, seen, Top.level, MAX_LEVEL)
        IN  /\ ~IgnoredData(node_data, IGNORE_TYPES)
            /\ HasData(node_data)
            /\ out' = Append(out,
                        [kind     |-> "node",
                         node     |-> node,
                         level    |-> Top.level,
                         from     |-> Top.target,
                         white    |-> InList(node, seen),
                         edges    |-> WalkEdgeData(GLOW_GRAPH, func, Top.target, node),
                         expanded |-> expand])
            /\ IF expand
               THEN /\ seen' = Append(seen, node)
                    /\ stack' = Append(Rest(node),
                                       Frame(GLOW_GRAPH, func, node, Top.level + 1))
               ELSE /\ seen' = seen
                    /\ stack' = Rest(node)
    /\ UNCHANGED <<session, GLOW_GRAPH, COMMAND_LOOKUP, MAX_LEVEL, IGNORE_TYPES, EDGE_MATCH,
                   nodes, func, last>>

\* one iteration of the loop: the neighbour has no data
WalkUndefined ==
    /\ Walking
    /\ \E node \in Top.todo :
        LET node_data == GLOW_GRAPH.node[node]
        IN  /\ ~IgnoredData(node_data, IGNORE_TYPES)
            /\ ~HasData(node_data)
            /\ out' = Append(out,
                        [kind     |-> "undefined",
                         node     |-> node,
                         level    |-> Top.level,
                         from     |-> Top.target,
                         white    |-> FALSE,
                         edges    |-> << >>,
                         expanded |-> FALSE])
            /\ stack' = Rest(node)
            /\ seen' = seen
    /\ UNCHANGED <<session, GLOW_GRAPH, COMMAND_LOOKUP, MAX_LEVEL, IGNORE_TYPES, EDGE_MATCH,
                   nodes, func, last>>

\* the loop of the innermost call is exhausted: the call returns
WalkReturn ==
    /\ Walking
    /\ Top.todo = {}
    /\ stack' = SubSeq(stack, 1, Len(stack) - 1)
    /\ UNCHANGED <<session, GLOW_GRAPH, COMMAND_LOOKUP, MAX_LEVEL, IGNORE_TYPES, EDGE_MATCH,
                   nodes, func, seen, out, last>>


WalkStep == WalkSkipIgnored \/ WalkEmit \/ WalkUndefined \/ WalkReturn

-----------------------------------------------------------------------------
(* special_command: the settings commands of the command loop *)

s_cmd_max_level == <<"$","$","m","a","x","_","l","e","v","e","l","=">>
s_cmd_ignore    == <<"$","$","i","g","n","o","r","e","=">>
s_cmd_edges     == <<"$","$","e","d","g","e","s","=">>
s_true          == <<"t","r","u","e">>
s_True          == <<"T","r","u","e">>
s_False         == <<"F","a","l","s","e">>

\* main(): a new query is read; seen was local to the walk that has returned,
\* and out records what the current command prints
NewPrompt ==
    /\ seen' = << >>
    /\ out' = << >>

\* '$$max_level=n': MAX_LEVEL = int(query.rsplit("=")[-1]); a ValueError
\* leaves MAX_LEVEL as it is
cmd_max_level(query) ==
    /\ pc = "prompt"
    /\ ~Walking
    /\ startswith(query, s_cmd_max_level)
    /\ LET arg == rsplit_last(query, "=") IN
       MAX_LEVEL' = IF IsInt(arg) THEN StrToInt(arg) ELSE MAX_LEVEL
    /\ NewPrompt
    /\ last' = [op |-> "special_command", query |-> query]
    /\ UNCHANGED <<session, GLOW_GRAPH, COMMAND_LOOKUP, IGNORE_TYPES, EDGE_MATCH,
                   nodes, func, stack>>

\* '$$ignore=...': IGNORE_TYPES = query.rsplit("=")[-1].split()
cmd_ignore(query) ==
    /\ pc = "prompt"
    /\ ~Walking
    /\ startswith(query, s_cmd_ignore)
    /\ IGNORE_TYPES' = split(rsplit_last(query, "="))
    /\ NewPrompt
    /\ last' = [op |-> "special_command", query |-> query]
    /\ UNCHANGED <<session, GLOW_GRAPH, COMMAND_LOOKUP, MAX_LEVEL, EDGE_MATCH,
                   nodes, func, stack>>

\* '$$edges=...': EDGE_MATCH = {"true": True, "false": False}.get(value, False)
cmd_edges(query) ==
    /\ pc = "prompt"
    /\ ~Walking
    /\ startswith(query, s_cmd_edges)
    /\ EDGE_MATCH' = (lower(rsplit_last(query, "=")) = s_true)
    /\ NewPrompt
    /\ last' = [op |-> "special_command", query |-> query]
    /\ UNCHANGED <<session, GLOW_GRAPH, COMMAND_LOOKUP, MAX_LEVEL, IGNORE_TYPES,
                   nodes, func, stack>>

-----------------------------------------------------------------------------
(* The graphs, settings and inputs the model draws from *)

Keys == {s_A, s_B, s_C}

Pairs == Keys \X Keys

LinkData == (s_type :> s_link) @@ (s_link_type :> s_link)

NodeOfType(t) == (s_type :> t)

\* the lists of at most n edges
RECURSIVE EdgeLists(_)
EdgeLists(n) ==
    IF n = 0 THEN {<< >>}
    ELSE LET shorter == EdgeLists(n - 1) IN
         shorter \cup {Append(l, p) : l \in {x \in shorter : Len(x) = n - 1}, p \in Pairs}

\* the graph obtained by add_node for every key and add_edge for every edge of the list
RECURSIVE AddEdges(_, _, _)
AddEdges(graph, list, attrs) ==
    IF list = << >> THEN graph
    ELSE AddEdges(add_edge(graph, list[1][1], list[1][2], attrs), Tail(list), attrs)

EmptyGraph == [node |-> << >>, edge |-> << >>]

\* add_node for every key that has a record; a key without one becomes a node
\* only as the end of an edge
RECURSIVE AddNodes(_, _, _)
AddNodes(graph, keys, data) ==
    IF keys = {} THEN graph
    ELSE LET k == CHOOSE x \in keys : TRUE IN
         AddNodes(IF data[k] = EmptyDict THEN graph ELSE add_node(graph, k, data[k]),
                  keys \ {k}, data)

\* A always has a record, B may be of another type, C may have no record
WalkNodeData ==
    {(s_A :> NodeOfType(s_property)) @@ (s_B :> b) @@ (s_C :> c) :
        b \in {NodeOfType(s_property), NodeOfType(s_tile)},
        c \in {EmptyDict, NodeOfType(s_property)}}

WalkGraphs ==
    {AddEdges(AddNodes(EmptyGraph, Keys, d), l, LinkData) :
        d \in WalkNodeData, l \in EdgeLists(MaxEdges)}

WalkQueries ==
    {s_cmd_max_level \o IntToStr(n) : n \in 0..MaxLevelCap}
    \cup {s_cmd_ignore, s_cmd_ignore \o s_tile}

InitSettings ==
    /\ MAX_LEVEL = 1
    /\ IGNORE_TYPES = << >>
    /\ EDGE_MATCH = FALSE

\* no record on disk and the tables empty, main at its prompt
InitSession ==
    /\ FORMSTEP_LOOKUP = << >>
    /\ FORMFLOW_LOOKUP = << >>
    /\ MODULE_LOOKUP = << >>
    /\ files = << >>
    /\ pc = "prompt"

InitIdle ==
    /\ InitSession
    /\ COMMAND_LOOKUP = << >>
    /\ nodes = << >>
    /\ func = "successors"
    /\ stack = << >>
    /\ seen = << >>
    /\ out = << >>
    /\ last = [op |-> "none"]

InitWalk ==
    /\ GLOW_GRAPH \in WalkGraphs
    /\ InitSettings
    /\ InitIdle

NextWalk ==
    \/ \E q \in WalkQueries : cmd_max_level(q)
    \/ \E q \in WalkQueries : cmd_ignore(q)
    \/ \E k \in Keys : print_parents(k)
    \/ \E k \in Keys : print_children(k)
    \/ WalkSkipIgnored
    \/ WalkEmit
    \/ WalkUndefined
    \/ WalkReturn

SpecWalk == InitWalk /\ [][NextWalk]_vars

-----------------------------------------------------------------------------
(* Properties of walk_tree *)

Dataless(n) == DOMAIN GLOW_GRAPH.node[n] = {}

SeenSet == Range(seen)

\* what is left to do for the walk: the pending calls and iterations, and two
\* units plus its neighbours for every node that may still be expanded
WalkVariant ==
    LET unseen == DOMAIN GLOW_GRAPH.node \ SeenSet IN
    Len(stack)
    + SumOver(1..Len(stack), [j \in 1..Len(stack) |-> Cardinality(stack[j].todo)])
    + SumOver(unseen,
              [n \in unseen |-> 2 + Cardinality(neighbours(GLOW_GRAPH, func, n))])

NoNodeExpandedTwice == \A i, j \in 1..Len(seen) : seen[i] = seen[j] => i = j

SeenEmittedNotExpanded ==
    \A i \in 1..Len(out) :
        /\ out[i].white => ~out[i].expanded
        /\ out[i].white => \E j \in 1..Len(seen) : seen[j] = out[i].node

TwoCycleGraph ==
    /\ DOMAIN GLOW_GRAPH.edge = {<<s_A, s_B>>, <<s_B, s_A>>}
    /\ Len(GLOW_GRAPH.edge[<<s_A, s_B>>]) = 1
    /\ Len(GLOW_GRAPH.edge[<<s_B, s_A>>]) = 1

WalkFinished == ~Walking /\ seen # << >>

Printed(i) == <<out[i].node, out[i].level, out[i].white, out[i].expanded>>

TwoCycleExample ==
    (/\ TwoCycleGraph
     /\ WalkFinished
     /\ func = "successors"
     /\ seen[1] = s_A
     /\ MAX_LEVEL = 0
     /\ IGNORE_TYPES = << >>)
    => /\ Len(out) = 2
       /\ Printed(1) = <<s_B, 1, FALSE, TRUE>>
       /\ Printed(2) = <<s_A, 2, TRUE, FALSE>>

\* C1: walk_tree terminates on every finite graph, from every start node, in
\* either direction and for every MAX_LEVEL (0 included): every step of a walk
\* decreases a natural-valued measure, no node is expanded twice in one walk,
\* a neighbour already in seen is printed but not expanded, and on the 2-cycle
\* A -> B -> A the unbounded walk of the successors of A prints B and expands
\* it, then prints A and does not expand it.
C1_WalkTerminates ==
    /\ [][Walking => WalkVariant' < WalkVariant]_vars
    /\ [](NoNodeExpandedTwice /\ SeenEmittedNotExpanded /\ TwoCycleExample)

C1_Witness ==
    /\ TwoCycleGraph
    /\ WalkFinished
    /\ func = "successors"
    /\ MAX_LEVEL = 0
    /\ seen = <<s_A, s_B>>
    /\ Len(out) = 2
    /\ out[2].node = s_A /\ out[2].white /\ ~out[2].expanded

UndefinedRecord(n, f) ==
    [kind |-> "undefined", node |-> n, level |-> f.level, from |-> f.target,
     white |-> FALSE, edges |-> << >>, expanded |-> FALSE]

\* C2: a neighbour without attribute data that the walk reaches, in either
\* direction and at any level, is reported as an undefined reference; no node
\* data is printed for it, it is never expanded and nothing is printed
\* through it.
C2_UndefinedReference ==
    /\ \A j \in 1..Len(stack) :
         \A n \in neighbours(GLOW_GRAPH, func, stack[j].target) \ stack[j].todo :
            Dataless(n) => \E i \in 1..Len(out) : out[i] = UndefinedRecord(n, stack[j])
    /\ \A i \in 1..Len(out) :
         /\ Dataless(out[i].node) => out[i].kind = "undefined" /\ ~out[i].expanded
         /\ out[i].level > 1 => ~Dataless(out[i].from)
    /\ \A j \in 2..Len(seen) : ~Dataless(seen[j])
    /\ \A j \in 2..Len(stack) : ~Dataless(stack[j].target)

\* a node without data that has neighbours of its own was reached at level 2
C2_Witness ==
    /\ WalkFinished
    /\ \E i \in 1..Len(out) :
         /\ out[i].kind = "undefined"
         /\ out[i].level = 2
         /\ neighbours(GLOW_GRAPH, func, out[i].node) # {}

LevelsBounded ==
    MAX_LEVEL >= 1 =>
        /\ \A i \in 1..Len(out) :
             /\ out[i].level <= MAX_LEVEL
             /\ out[i].level >= MAX_LEVEL => ~out[i].expanded
        /\ Len(stack) <= MAX_LEVEL

Unbounded ==
    MAX_LEVEL = 0 =>
        \A i \in 1..Len(out) :
            (out[i].kind = "node" /\ ~out[i].white) => out[i].expanded

StartsAtLevelOne ==
    /\ \A j \in 1..Len(stack) : stack[j].level = j
    /\ Walking => seen[1] = stack[1].target
    /\ \A i \in 1..Len(out) :
         /\ out[i].level >= 1
         /\ out[i].level = 1 <=> out[i].from = seen[1]

\* C4: a walk starts with only its start node in seen and the depth counter
\* at 1; with MAX_LEVEL = n >= 1 nothing is printed at a level above n and no
\* node at level n is expanded; with MAX_LEVEL = 0 every defined, non-ignored
\* neighbour not yet in seen is expanded; MAX_LEVEL is 1 by default.
C4_DepthBudget ==
    /\ MAX_LEVEL = 1
    /\ [](StartsAtLevelOne /\ LevelsBounded /\ Unbounded)

\* with MAX_LEVEL = 2 a node printed at level 2 has unseen neighbours left
C4_Witness ==
    /\ MAX_LEVEL = 2
    /\ WalkFinished
    /\ \E i \in 1..Len(out) :
         /\ out[i].level = 2
         /\ out[i].kind = "node"
         /\ ~out[i].white
         /\ neighbours(GLOW_GRAPH, func, out[i].node) \ SeenSet # {}

-----------------------------------------------------------------------------
(* glow_utils: serialize and match *)

s_entity == <<"e","n","t","i","t","y">>

\* the order in which a Python 2 dict yields these attribute names (the slot
\* order of their hashes in the dict's table, a name that finds its slot taken
\* moving on); no dict of the model holds both counts and ref_type, entity and
\* template, or property and calculated_property, none holds two of
\* validation_rule, defaulting_rule, lookup_rule and rule_name, and none holds
\* more than five names
DictOrder ==
    <<<<"v","a","l","i","d","a","t","i","o","n","_","r","u","l","e">>,
      <<"d","e","f","a","u","l","t","i","n","g","_","r","u","l","e">>,
      <<"l","o","o","k","u","p","_","r","u","l","e">>,
      <<"r","u","l","e","_","n","a","m","e">>,
      s_counts, <<"r","e","f","_","t","y","p","e">>, s_property,
      <<"c","a","l","c","u","l","a","t","e","d","_","p","r","o","p","e","r","t","y">>,
      s_type, <<"c","o","m","m","a","n","d">>, s_name,
      <<"f","o","r","m","f","l","o","w">>, s_link_type, s_entity,
      <<"t","e","m","p","l","a","t","e">>>>

\* the dict XMLParser._template_dict builds receives template before
\* link_type, which then finds its slot taken: template comes first
ShowFormOrder ==
    <<s_type, s_name, <<"t","e","m","p","l","a","t","e">>, s_link_type>>

IsShowForm(g_dict) ==
    /\ s_link_type \in DOMAIN g_dict
    /\ g_dict[s_link_type] = <<"s","h","o","w"," ","f","o","r","m"," ","t","a","s","k">>

iteritems(g_dict) ==
    SelectSeq(IF IsShowForm(g_dict) THEN ShowFormOrder ELSE DictOrder,
              LAMBDA k : k \in DOMAIN g_dict)

RECURSIVE join(_, _)
join(sep, parts) ==
    IF parts = << >> THEN << >>
    ELSE IF Len(parts) = 1 THEN parts[1]
    ELSE parts[1] \o sep \o join(sep, Tail(parts))

\* '{}: {}'.format(k, v)
ItemText(k, v) == k \o <<":", " ">> \o v

\* serialize(g_dict) with display=False: every attribute, joined by ", "
serialize(g_dict) ==
    LET keys == iteritems(g_dict) IN
    join(<<",", " ">>, [i \in 1..Len(keys) |-> ItemText(keys[i], g_dict[keys[i]])])

\* re: the patterns are made of literal characters, "." (any character) and a
\* postfix "*" (any number of repetitions of the character before it)
re_compiles(pattern) ==
    \A i \in 1..Len(pattern) :
        pattern[i] = "*" => (i > 1 /\ pattern[i - 1] # "*")

AtomMatches(atom, c) == atom = "." \/ atom = c

\* whether pattern[i..] matches a prefix of text[j..]
RECURSIVE MatchHere(_, _, _, _)
MatchHere(pattern, i, text, j) ==
    IF i > Len(pattern) THEN TRUE
    ELSE IF i < Len(pattern) /\ pattern[i + 1] = "*"
    THEN \/ MatchHere(pattern, i + 2, text, j)
         \/ /\ j <= Len(text)
            /\ AtomMatches(pattern[i], text[j])
            /\ MatchHere(pattern, i, text, j + 1)
    ELSE /\ j <= Len(text)
         /\ AtomMatches(pattern[i], text[j])
         /\ MatchHere(pattern, i + 1, text, j + 1)

\* re.search(pattern, text, flags=re.IGNORECASE) is not None
re_search_ignorecase(pattern, text) ==
    LET p == lower(pattern)
        t == lower(text)
    IN  \E j \in 1..(Len(t) + 1) : MatchHere(p, 1, t, j)

\* a mutant of match: the search is case-sensitive
match_CaseSensitive(query, g_dict) ==
    LET t == serialize(g_dict)
    IN  \E j \in 1..(Len(t) + 1) : MatchHere(query, 1, t, j)

\* match(query, g_dict), for a pattern that compiles
match(query, g_dict) == re_search_ignorecase(query, serialize(g_dict))

-----------------------------------------------------------------------------
(* select_nodes and get_node_data *)

s_Foo == <<"F","o","o">>
s_FooBar == <<"F","o","o","B","a","r">>
s_Bar == <<"B","a","r">>
s_E == <<"E">>
s_F == <<"F">>
s_G == <<"G">>
s_Approve == <<"A","p","p","r","o","v","e">>
s_Cancel == <<"C","a","n","c","e","l">>
s_AttachToInvoice == <<"A","t","t","a","c","h","T","o","I","n","v","o","i","c","e">>
s_T == <<"T">>
s_W == <<"W">>

\* "{}-{}".format(name, entity): the key of a property or command node
Reference(name, entity) == name \o <<"-">> \o entity

\* the order in which the graph yields its nodes, and a node its neighbours
KeyOrder ==
    <<s_A, s_B, s_C, s_T, s_W,
      Reference(s_Foo, s_E), Reference(s_FooBar, s_E), Reference(s_Foo, s_F),
      Reference(s_Approve, s_E), Reference(s_Cancel, s_E),
      Reference(s_AttachToInvoice, s_E),
      s_E, s_F, <<"F","O","O">>, <<"t">>, <<"w">>, <<"m">>, <<"c">>, <<"p">>,
      <<"T","e","s","t">>, <<"Z","e","d">>, <<"M","o","d">>, <<"M","a","i","n">>,
      <<"F","l","o","w">>, <<"Z","E","D">>>>

NodeList(graph) == SelectSeq(KeyOrder, LAMBDA k : k \in DOMAIN graph.node)

\* "{}<{}".format(parents, children)
CountsText(parents, children) == IntToStr(parents) \o <<"<">> \o IntToStr(children)

\* a mutant of get_node_data: counts is written whether the node has data or not
get_node_data_Unguarded(graph, node) ==
    LET parents  == Cardinality(predecessors(graph, node))
        children == Cardinality(successors(graph, node))
    IN  (s_counts :> CountsText(parents, children)) @@ graph.node[node]

\* a mutant of get_node_data: the degrees are counted instead of the neighbours
get_node_data_Degrees(graph, node) ==
    IF DOMAIN graph.node[node] # {}
    THEN (s_counts :> CountsText(in_degree(graph, node), out_degree(graph, node)))
         @@ graph.node[node]
    ELSE graph.node[node]

\* get_node_data: the node's dict, given a counts entry when it is not empty
get_node_data(graph, node) ==
    LET node_data == graph.node[node] IN
    IF HasData(node_data)
    THEN LET parents  == Cardinality(predecessors(graph, node))
             children == Cardinality(successors(graph, node))
         IN  (s_counts :> CountsText(parents, children)) @@ node_data
    ELSE node_data

\* a mutant of Annotated: the nodes without data are dropped from the graph
Annotated_Pruned(graph) ==
    [graph EXCEPT !.node = [n \in {k \in DOMAIN graph.node : DOMAIN graph.node[k] # {}}
                               |-> get_node_data(graph, n)]]

\* get_node_data returns the dict the graph holds: the counts entry stays in it
Annotated(graph) ==
    [graph EXCEPT !.node = [n \in DOMAIN graph.node |-> get_node_data(graph, n)]]

\* a mutant of TypeIgnored: nothing is ignored
TypeIgnored_Never(g_dict, ignore) == FALSE

\* g_dict.get("type") in IGNORE_TYPES
TypeIgnored(g_dict, ignore) ==
    /\ s_type \in DOMAIN g_dict
    /\ InList(g_dict[s_type], ignore)

\* graph.edges_iter(node, data=True): the data of the edges leaving node
RECURSIVE EdgesFrom(_, _, _)
EdgesFrom(graph, node, order) ==
    IF order = << >> THEN << >>
    ELSE (IF <<node, order[1]>> \in DOMAIN graph.edge
          THEN graph.edge[<<node, order[1]>>]
          ELSE << >>)
         \o EdgesFrom(graph, node, Tail(order))

edges_iter(graph, node) == EdgesFrom(graph, node, KeyOrder)

\* the inner loop of select_nodes: ignored edges are skipped, and the loop
\* breaks after the first edge that is not ignored, matching or not
EdgeSelects(graph, node, query, ignore) ==
    LET kept == SelectSeq(edges_iter(graph, node), LAMBDA e : ~TypeIgnored(e, ignore)) IN
    /\ kept # << >>
    /\ match(query, kept[1])

\* whether the loop of select_nodes appends the node
NodeSelects(graph, node, query, ignore, edgeMatch) ==
    LET node_data == get_node_data(graph, node) IN
    /\ ~TypeIgnored(node_data, ignore)
    /\ \/ match(query, node_data)
       \/ edgeMatch /\ EdgeSelects(graph, node, query, ignore)

\* select_nodes(graph, query): the list of (node, node_data); a pattern that
\* does not compile raises in match for every node, which is caught and
\* reported, and the list stays empty
select_nodes(graph, query, ignore, edgeMatch) ==
    LET hits == IF re_compiles(query)
                THEN SelectSeq(NodeList(graph),
                               LAMBDA n : NodeSelects(graph, n, query, ignore, edgeMatch))
                ELSE << >>
    IN  [i \in 1..Len(hits) |-> <<hits[i], get_node_data(graph, hits[i])>>]

\* main(): nodes = select_nodes(GLOW_GRAPH, query)
Select(query) ==
    /\ pc = "prompt"
    /\ ~Walking
    /\ NewPrompt
    /\ nodes' = select_nodes(GLOW_GRAPH, query, IGNORE_TYPES, EDGE_MATCH)
    /\ GLOW_GRAPH' = Annotated(GLOW_GRAPH)
    /\ last' = [op |-> "select_nodes", query |-> query]
    /\ UNCHANGED <<session, COMMAND_LOOKUP, MAX_LEVEL, IGNORE_TYPES, EDGE_MATCH, func, stack>>

-----------------------------------------------------------------------------
(* Selection: graphs, queries and specification *)

s_jump == <<"j","u","m","p">>
s_show == <<"s","h","o","w">>

Named(t, name) == (s_type :> t) @@ (s_name :> name)

Link(link_type) == (s_type :> s_link) @@ (s_link_type :> link_type)

SelectNodeData ==
    {(s_A :> Named(s_property, s_Foo)) @@ (s_B :> b) @@ (s_C :> c) :
        b \in {Named(s_tile, s_Bar), Named(s_property, s_Bar)},
        c \in {EmptyDict, Named(s_tile, s_Foo)}}

SelectPairs == {<<s_A, s_B>>, <<s_B, s_A>>, <<s_A, s_C>>, <<s_C, s_C>>}

\* the lists of at most n edges with their data
RECURSIVE LinkLists(_)
LinkLists(n) ==
    IF n = 0 THEN {<< >>}
    ELSE LET shorter == LinkLists(n - 1) IN
         shorter \cup {Append(l, <<p, Link(t)>>) :
                          l \in {x \in shorter : Len(x) = n - 1},
                          p \in SelectPairs, t \in {s_jump, s_show}}

RECURSIVE AddLinks(_, _)
AddLinks(graph, list) ==
    IF list = << >> THEN graph
    ELSE AddLinks(add_edge(graph, list[1][1][1], list[1][1][2], list[1][2]), Tail(list))

SelectGraphs ==
    {AddLinks(AddNodes(EmptyGraph, Keys, d), l) :
        d \in SelectNodeData, l \in LinkLists(MaxLinks)}

SettingQueries ==
    {s_cmd_ignore, s_cmd_ignore \o s_tile, s_cmd_ignore \o s_link,
     s_cmd_edges \o s_True, s_cmd_edges \o s_False}

q_foo      == <<"f","o","o">>
q_TILE     == <<"T","I","L","E">>
q_jump     == s_jump
q_any      == <<".","*">>
q_noparent == <<"c","o","u","n","t","s",":"," ","0","<">>
q_name_ar  == <<"n","a","m","e",":"," ",".","a","r">>

SelectQueries == {q_foo, q_TILE, q_jump, q_any, q_noparent, q_name_ar}

InitSelect ==
    /\ GLOW_GRAPH \in SelectGraphs
    /\ InitSettings
    /\ InitIdle

NextSelect ==
    \/ \E q \in SettingQueries : cmd_ignore(q)
    \/ \E q \in SettingQueries : cmd_edges(q)
    \/ \E q \in SelectQueries : Select(q)

SpecSelect == InitSelect /\ [][NextSelect]_vars

-----------------------------------------------------------------------------
(* Properties of select_nodes *)

Selecting == last.op = "select_nodes"

Returned == Range(nodes)

ReturnedKeys == {pair[1] : pair \in Returned}

\* text occurs in whole, as a run of consecutive characters
Contains(whole, text) ==
    \E i \in 0..(Len(whole) - Len(text)) : SubSeq(whole, i + 1, i + Len(text)) = text

IsLiteral(query) == \A i \in 1..Len(query) : query[i] \notin {".", "*"}

\* a literal query matches a dict when one of its "name: value" items holds
\* the query's text, letter case apart (the literal queries used here hold no
\* ", " and so cannot span two items)
ItemsHold(query, g_dict) ==
    \E k \in DOMAIN g_dict :
        Contains(lower(k \o <<":", " ">> \o g_dict[k]), lower(query))

DataMatches(query, g_dict) ==
    IF IsLiteral(query) THEN ItemsHold(query, g_dict) ELSE match(query, g_dict)

KindIgnored(g_dict) ==
    /\ s_type \in DOMAIN g_dict
    /\ \E i \in 1..Len(IGNORE_TYPES) : IGNORE_TYPES[i] = g_dict[s_type]

\* C8: with edge matching disabled, select_nodes returns exactly the pairs
\* (key, data) of the nodes whose kind is not ignored and whose data, with all
\* of its attributes, matches the pattern whatever the letter case; a node of
\* an ignored kind is never returned, with or without edge matching.
C8_SelectExact ==
    Selecting =>
        /\ \A pair \in Returned : ~KindIgnored(pair[2])
        /\ Len(nodes) = Cardinality(Returned)
        /\ ~EDGE_MATCH =>
             Returned = {<<n, GLOW_GRAPH.node[n]>> :
                            n \in {k \in DOMAIN GLOW_GRAPH.node :
                                     /\ ~KindIgnored(GLOW_GRAPH.node[k])
                                     /\ DataMatches(last.query, GLOW_GRAPH.node[k])}}

\* the upper-case query TILE returned a tile while properties were left out
C8_Witness ==
    /\ Selecting
    /\ ~EDGE_MATCH
    /\ last.query = q_TILE
    /\ IGNORE_TYPES = << >>
    /\ Cardinality(Returned) = 1
    /\ \E n \in DOMAIN GLOW_GRAPH.node : n \notin ReturnedKeys /\ ~Dataless(n)

OutgoingEdges(n) ==
    {<<v, i>> : v \in successors(GLOW_GRAPH, n), i \in 1..MaxLinks + 1}
    \cap {<<v, i>> \in (DOMAIN GLOW_GRAPH.node) \X (1..MaxLinks + 1) :
            <<n, v>> \in DOMAIN GLOW_GRAPH.edge /\ i <= Len(GLOW_GRAPH.edge[<<n, v>>])}

EdgeAt(n, e) == GLOW_GRAPH.edge[<<n, e[1]>>][e[2]]

\* C9: with EDGE_MATCH disabled no node is returned whose own data does not
\* match; with EDGE_MATCH enabled a node of a kind that is not ignored is
\* returned whenever any one of its outgoing edges of a kind that is not
\* ignored matches, whatever the position of that edge.
C9_AnyEdgeSelects ==
    Selecting =>
        /\ ~EDGE_MATCH =>
             \A pair \in Returned : DataMatches(last.query, pair[2])
        /\ EDGE_MATCH =>
             \A n \in DOMAIN GLOW_GRAPH.node :
                (/\ ~KindIgnored(GLOW_GRAPH.node[n])
                 /\ \E e \in OutgoingEdges(n) :
                      /\ ~KindIgnored(EdgeAt(n, e))
                      /\ DataMatches(last.query, EdgeAt(n, e)))
                => n \in ReturnedKeys

ExpectedCounts(parents, children) == IntToStr(parents) \o <<"<">> \o IntToStr(children)

\* C10 as claimed: every returned node-data carries counts equal to
\* "<in-degree><<out-degree>", parallel edges counted.
C10_CountsAreDegrees ==
    Selecting =>
        \A pair \in Returned :
            /\ s_counts \in DOMAIN pair[2]
            /\ pair[2][s_counts] =
                 ExpectedCounts(in_degree(GLOW_GRAPH, pair[1]), out_degree(GLOW_GRAPH, pair[1]))

\* C10 as amended: every returned node-data that is not empty carries counts
\* equal to "<p><<c>", p and c being the numbers of distinct predecessor and
\* successor nodes at the time of the query (parallel edges counted once); a
\* node without attribute data is returned without a counts entry.
C10_CountsAreNeighbours ==
    Selecting =>
        \A pair \in Returned :
            IF Dataless(pair[1])
            THEN pair[2] = EmptyDict
            ELSE /\ s_counts \in DOMAIN pair[2]
                 /\ pair[2][s_counts] =
                      ExpectedCounts(Cardinality(predecessors(GLOW_GRAPH, pair[1])),
                                     Cardinality(successors(GLOW_GRAPH, pair[1])))

\* a returned node has two parallel edges from the same predecessor, and its
\* counts entry names one parent
C10_Witness ==
    /\ Selecting
    /\ \E pair \in Returned :
         /\ ~Dataless(pair[1])
         /\ in_degree(GLOW_GRAPH, pair[1]) = 2
         /\ Cardinality(predecessors(GLOW_GRAPH, pair[1])) = 1
         /\ s_counts \in DOMAIN pair[2]
         /\ pair[2][s_counts] = ExpectedCounts(1, 0)

\* C11 as claimed: the counts annotation is local to the selection call: once
\* select_nodes has returned, the attribute bags stored in the graph hold no
\* counts entry.
C11_CountsNotPersisted ==
    Selecting =>
        \A n \in DOMAIN GLOW_GRAPH.node : s_counts \notin DOMAIN GLOW_GRAPH.node[n]

-----------------------------------------------------------------------------
(* The command lookup table *)

\* add_to_command_lookup(command, entity)
add_to_command_lookup(commands, command, entity) ==
    IF command \in DOMAIN commands
    THEN [commands EXCEPT ![command] = Append(@, entity)]
    ELSE (command :> <<entity>>) @@ commands

\* a mutant of get_command_entity: the owner registered last is returned
get_command_entity_Last(commands, command, entity) ==
    IF command \in DOMAIN commands /\ ~InList(entity, commands[command])
    THEN commands[command][Len(commands[command])]
    ELSE entity

\* get_command_entity(command, entity)
get_command_entity(commands, command, entity) ==
    IF command \in DOMAIN commands
    THEN IF ~InList(entity, commands[command])
         THEN commands[command][1]
         ELSE entity
    ELSE entity

s_Invoice == <<"I","n","v","o","i","c","e">>
s_Receipt == <<"R","e","c","e","i","p","t">>
s_Order   == <<"O","r","d","e","r">>

Commands == {s_Approve, s_Cancel}

Entities == {s_Invoice, s_Receipt, s_Order}

\* add_entity_to_graph, for a rule of type CMD
AddToCommandLookup(command, entity) ==
    /\ command \in DOMAIN COMMAND_LOOKUP => Len(COMMAND_LOOKUP[command]) < MaxOwners
    /\ COMMAND_LOOKUP' = add_to_command_lookup(COMMAND_LOOKUP, command, entity)
    /\ last' = [op |-> "add_to_command_lookup"]
    /\ UNCHANGED <<session, GLOW_GRAPH, MAX_LEVEL, IGNORE_TYPES, EDGE_MATCH,
                   nodes, func, stack, seen, out>>

\* a formflow task or a template tile looks the owner of a command up
GetCommandEntity(command, entity) ==
    /\ last' = [op      |-> "get_command_entity",
                command |-> command,
                entity  |-> entity,
                result  |-> get_command_entity(COMMAND_LOOKUP, command, entity)]
    /\ UNCHANGED <<session, GLOW_GRAPH, COMMAND_LOOKUP, MAX_LEVEL, IGNORE_TYPES, EDGE_MATCH,
                   nodes, func, stack, seen, out>>

InitLookup ==
    /\ GLOW_GRAPH = EmptyGraph
    /\ InitSettings
    /\ InitIdle

NextLookup ==
    \/ \E c \in Commands, e \in Entities : AddToCommandLookup(c, e)
    \/ \E c \in Commands, e \in Entities : GetCommandEntity(c, e)

SpecLookup == InitLookup /\ [][NextLookup]_vars

Owners(command) == Range(COMMAND_LOOKUP[command])

Resolved ==
    last.op = "get_command_entity" =>
        IF last.command \notin DOMAIN COMMAND_LOOKUP THEN last.result = last.entity
        ELSE IF last.entity \in Owners(last.command) THEN last.result = last.entity
        ELSE last.result = COMMAND_LOOKUP[last.command][1]

ApproveExample ==
    (/\ last.op = "get_command_entity"
     /\ last.command = s_Approve
     /\ last.entity = s_Receipt
     /\ s_Approve \in DOMAIN COMMAND_LOOKUP
     /\ COMMAND_LOOKUP[s_Approve][1] = s_Invoice
     /\ s_Receipt \notin Owners(s_Approve))
    => last.result = s_Invoice

\* a registration appends its owner to the list under its command: the lists
\* stay in the order of registration
RegistrationAppends ==
    COMMAND_LOOKUP' # COMMAND_LOOKUP =>
        \E c \in Commands, e \in Entities :
            /\ COMMAND_LOOKUP' =
                 [x \in DOMAIN COMMAND_LOOKUP \cup {c} |->
                    IF x = c
                    THEN (IF c \in DOMAIN COMMAND_LOOKUP
                          THEN COMMAND_LOOKUP[c] \o <<e>> ELSE <<e>>)
                    ELSE COMMAND_LOOKUP[x]]
            /\ last'.op = "add_to_command_lookup"

\* C5: get_command_entity(name, e) returns e if e is an owner registered under
\* name or if name was never registered, and the owner registered first under
\* name otherwise ("Approve" registered first by "Invoice" and requested by
\* "Receipt" resolves to "Invoice"); a resolution leaves the table as it is.
C5_CommandResolution ==
    /\ [](Resolved /\ ApproveExample)
    /\ [][RegistrationAppends]_vars
    /\ [][last'.op = "get_command_entity" => COMMAND_LOOKUP' = COMMAND_LOOKUP]_vars

C5_Witness ==
    /\ last.op = "get_command_entity"
    /\ last.command = s_Approve
    /\ last.entity = s_Receipt
    /\ s_Approve \in DOMAIN COMMAND_LOOKUP
    /\ COMMAND_LOOKUP[s_Approve] = <<s_Invoice, s_Order>>
    /\ last.result = s_Invoice

-----------------------------------------------------------------------------
(* Build steps: property references, command references, missing_nodes *)

EdgeCount(graph) ==
    SumOver(DOMAIN graph.edge, [p \in DOMAIN graph.edge |-> Len(graph.edge[p])])

\* add_property_edge_if_exists(graph, parent, prop, attrs): the graph after the
\* call. The search made by select_nodes leaves its counts in the node dicts.
add_property_edge_if_exists(graph, parent, prop, attrs, ignore, edgeMatch) ==
    LET base_prop == rsplit_last(prop, ".")
        name_prop == rsplit_first(base_prop, "-")
    IN  IF has_node(graph, base_prop)
        THEN add_edge(graph, parent, base_prop, attrs)
        ELSE LET query == <<"n","a","m","e",":"," ">> \o name_prop
                 found == select_nodes(graph, query, ignore, edgeMatch)
             IN  IF Len(found) = 1
                 THEN add_edge(Annotated(graph), parent, found[1][1], attrs)
                 ELSE Annotated(graph)

s_AttachToI == <<"A","t","t","a","c","h","T","o","I">>

\* a mutant of missing_nodes: a node is reported from two incoming edges on
missing_nodes_TwoEdges(graph) ==
    SelectSeq(NodeList(graph),
              LAMBDA node : /\ s_type \notin DOMAIN graph.node[node]
                            /\ ~startswith(node, s_AttachToI)
                            /\ in_degree(graph, node) > 1)

\* missing_nodes(graph): the nodes it prints, in the order of the graph
missing_nodes(graph) ==
    SelectSeq(NodeList(graph),
              LAMBDA node : /\ s_type \notin DOMAIN graph.node[node]
                            /\ ~startswith(node, s_AttachToI)
                            /\ in_degree(graph, node) > 0)

s_template == <<"t","e","m","p","l","a","t","e">>
s_formflow == <<"f","o","r","m","f","l","o","w">>
s_command  == <<"c","o","m","m","a","n","d">>
s_bound    == <<"b","o","u","n","d">>
s_Main     == <<"M","a","i","n">>
s_Flow     == <<"F","l","o","w">>

Property(name, entity) == Named(s_property, name) @@ (s_entity :> entity)

\* a template's reference to a property (a bound property, a tile, a column)
BindProperty(parent, prop) ==
    /\ EdgeCount(GLOW_GRAPH) < MaxBuildEdges
    /\ GLOW_GRAPH' = add_property_edge_if_exists(GLOW_GRAPH, parent, prop, Link(s_bound),
                                                 IGNORE_TYPES, EDGE_MATCH)
    /\ last' = [op     |-> "add_property_edge_if_exists",
                parent |-> parent,
                prop   |-> prop,
                before |-> GLOW_GRAPH]
    /\ UNCHANGED <<session, COMMAND_LOOKUP, MAX_LEVEL, IGNORE_TYPES, EDGE_MATCH,
                   nodes, func, stack, seen, out>>

\* add_task_edge_to_graph, for a RUN task: the command's node is keyed by the
\* command and the entity that get_command_entity gives
RunTask(formflow, entity, command) ==
    /\ EdgeCount(GLOW_GRAPH) < MaxBuildEdges
    /\ LET owner == get_command_entity(COMMAND_LOOKUP, command, entity) IN
       GLOW_GRAPH' = add_edge(GLOW_GRAPH, formflow, Reference(command, owner),
                              Link(s_command))
    /\ last' = [op |-> "add_task_edge_to_graph"]
    /\ UNCHANGED <<session, COMMAND_LOOKUP, MAX_LEVEL, IGNORE_TYPES, EDGE_MATCH,
                   nodes, func, stack, seen, out>>

\* print_graph_info: the diagnostic pass over the graph
PrintGraphInfo ==
    /\ last' = [op |-> "missing_nodes", reported |-> missing_nodes(GLOW_GRAPH)]
    /\ UNCHANGED <<session, GLOW_GRAPH, COMMAND_LOOKUP, MAX_LEVEL, IGNORE_TYPES, EDGE_MATCH,
                   nodes, func, stack, seen, out>>

\* the template T, the formflow W and the command Approve of entity E have
\* been loaded, with any of the properties Foo-E, FooBar-E and Foo-F
BuildNodeData ==
    {(s_T :> Named(s_template, s_Main)) @@ (s_W :> Named(s_formflow, s_Flow))
     @@ (Reference(s_Approve, s_E) :> Property(s_Approve, s_E))
     @@ (Reference(s_Foo, s_E) :> a)
     @@ (Reference(s_FooBar, s_E) :> b)
     @@ (Reference(s_Foo, s_F) :> c) :
        a \in {EmptyDict, Property(s_Foo, s_E)},
        b \in {EmptyDict, Property(s_FooBar, s_E)},
        c \in {EmptyDict, Property(s_Foo, s_F)}}

BuildGraphs == {AddNodes(EmptyGraph, DOMAIN d, d) : d \in BuildNodeData}

\* the references made by the template: an exact key, a dotted path, and a
\* key by a name no property has
BuildProps ==
    {Reference(s_Foo, s_E),
     <<"a", ".">> \o Reference(s_Foo, s_G),
     Reference(s_Bar, s_G)}

BuildTasks == {<<s_F, s_Approve>>, <<s_E, s_Cancel>>, <<s_E, s_AttachToInvoice>>}

\* a first build: the settings have their defaults
InitBuild ==
    /\ GLOW_GRAPH \in BuildGraphs
    /\ COMMAND_LOOKUP = (s_Approve :> <<s_E>>)
    /\ InitSession
    /\ InitSettings
    /\ nodes = << >>
    /\ func = "successors"
    /\ stack = << >>
    /\ seen = << >>
    /\ out = << >>
    /\ last = [op |-> "none"]

NextBuild ==
    \/ \E prop \in BuildProps : BindProperty(s_T, prop)
    \/ \E t \in BuildTasks : RunTask(s_W, t[1], t[2])
    \/ PrintGraphInfo

SpecBuild == InitBuild /\ [][NextBuild]_vars

-----------------------------------------------------------------------------
(* Properties of the build steps *)

Diagnosed == last.op = "missing_nodes"

NeverPopulated(k) == Dataless(k) /\ in_degree(GLOW_GRAPH, k) > 0

BeginsWithAttachToI(k) == Len(k) >= 9 /\ SubSeq(k, 1, 9) = s_AttachToI

\* C3 as claimed: every key that has incoming edges and no attributes is
\* reported by missing_nodes, whatever its text.
C3_ReportsEveryMissingNode ==
    Diagnosed =>
        \A k \in DOMAIN GLOW_GRAPH.node :
            NeverPopulated(k) => InList(k, last.reported)

\* C3 as amended: every key that has incoming edges and no attributes is
\* reported by missing_nodes, unless the key begins with "AttachToI".
C3_ReportsMissingNodes ==
    Diagnosed =>
        \A k \in DOMAIN GLOW_GRAPH.node :
            (NeverPopulated(k) /\ ~BeginsWithAttachToI(k)) => InList(k, last.reported)

\* the pass reported a missing node and left out one whose key begins with
\* "AttachToI"
C3_Witness ==
    /\ Diagnosed
    /\ last.reported # << >>
    /\ \E k \in DOMAIN GLOW_GRAPH.node : NeverPopulated(k) /\ BeginsWithAttachToI(k)

Bound == last.op = "add_property_edge_if_exists"

BareKey == rsplit_last(last.prop, ".")

NamePortion == rsplit_first(BareKey, "-")

\* the fallback was taken: no node had the bare key
FellBack == Bound /\ BareKey \notin DOMAIN last.before.node

HasName(graph, n, name) ==
    /\ s_name \in DOMAIN graph.node[n]
    /\ graph.node[n][s_name] = name

NamedNodes == {n \in DOMAIN last.before.node : HasName(last.before, n, NamePortion)}

EdgesAdded == EdgeCount(GLOW_GRAPH) - EdgeCount(last.before)

NewEdgePairs ==
    {p \in DOMAIN GLOW_GRAPH.edge :
        \/ p \notin DOMAIN last.before.edge
        \/ Len(GLOW_GRAPH.edge[p]) > Len(last.before.edge[p])}

\* C6: when no node has the bare key, exactly one edge is added if exactly one
\* node has a name attribute equal to the name portion of the bare key, and no
\* edge if no node or several nodes have that name.
C6_FallbackByName ==
    FellBack => EdgesAdded = (IF Cardinality(NamedNodes) = 1 THEN 1 ELSE 0)

\* C7: an edge added through the fallback ends at a node whose name attribute
\* equals the name portion of the bare key.
C7_FallbackTarget ==
    FellBack => \A p \in NewEdgePairs : HasName(last.before, p[2], NamePortion)

-----------------------------------------------------------------------------
(* create_graph: the records and their handlers *)

s_index     == <<"i","n","d","e","x">>
s_image     == <<"i","m","a","g","e">>
s_sound     == <<"s","o","u","n","d">>
s_condition == <<"c","o","n","d","i","t","i","o","n">>
s_module    == <<"m","o","d","u","l","e">>
s_metadata  == <<"m","e","t","a","d","a","t","a">>
s_test      == <<"t","e","s","t">>
s_task      == <<"t","a","s","k">>
s_FOO       == <<"F","O","O">>
s_Mod       == <<"M","o","d">>
s_Zed       == <<"Z","e","d">>
s_Test      == <<"T","e","s","t">>
s_t         == <<"t">>
s_w         == <<"w">>
s_m         == <<"m">>
s_c         == <<"c">>
s_p         == <<"p">>

UpperTable == [c \in {LowerCase[i] : i \in 1..26} |->
                  UpperCase[CHOOSE i \in 1..26 : LowerCase[i] = c]]

\* str.upper()
upper(s) == [i \in 1..Len(s) |-> IF s[i] \in DOMAIN UpperTable THEN UpperTable[s[i]] ELSE s[i]]

\* d[k] = v
Put(d, k, v) == (k :> v) @@ d

\* d.get(k, default)
Get(d, k, default) == IF k \in DOMAIN d THEN d[k] ELSE default

\* GlowObject.map(): the mapped values of the object and its type
map(object) ==
    IF "entity" \in DOMAIN object /\ object.entity # << >>
    THEN Named(object.type, object.name) @@ (s_entity :> object.entity)
    ELSE Named(object.type, object.name)

\* the state of a build: the graph under construction, the module's tables and
\* settings, the kinds of the records processed so far, and whether an
\* exception has left create_graph
BuildState(graph, commands, formsteps, formflows, modules, ignore, edgeMatch) ==
    [graph           |-> graph,
     COMMAND_LOOKUP  |-> commands,
     FORMSTEP_LOOKUP |-> formsteps,
     FORMFLOW_LOOKUP |-> formflows,
     MODULE_LOOKUP   |-> modules,
     IGNORE_TYPES    |-> ignore,
     EDGE_MATCH      |-> edgeMatch,
     order           |-> << >>,
     lookups         |-> << >>,
     raised          |-> FALSE]

PropertyEdge(b, parent, prop, attrs) ==
    [b EXCEPT !.graph = add_property_edge_if_exists(b.graph, parent, prop, attrs,
                                                    b.IGNORE_TYPES, b.EDGE_MATCH)]

s_calculated_property == <<"c","a","l","c","u","l","a","t","e","d","_","p","r","o","p","e","r","t","y">>
s_defaulting_rule     == <<"d","e","f","a","u","l","t","i","n","g","_","r","u","l","e">>
s_validation_rule     == <<"v","a","l","i","d","a","t","i","o","n","_","r","u","l","e">>
s_lookup_rule         == <<"l","o","o","k","u","p","_","r","u","l","e">>
s_rule_name           == <<"r","u","l","e","_","n","a","m","e">>

\* add_entity_to_graph: rule_types
rule_types ==
    [CMD |-> s_command, PRP |-> s_calculated_property, PRO |-> s_defaulting_rule,
     VAL |-> s_validation_rule, LOO |-> s_lookup_rule]

\* d[k] for a key the dict does not hold: the exception leaves create_graph
KeyError(b) == [b EXCEPT !.raised = TRUE]

\* the edges of rule_details: from the entity to the property, and from the
\* property to every condition the rule cites
RECURSIVE condition_edges(_, _, _, _)
condition_edges(graph, reference, conditions, e_dict) ==
    IF conditions = << >> THEN graph
    ELSE condition_edges(add_edge(graph, reference, lower(conditions[1]), e_dict),
                         reference, Tail(conditions), e_dict)

\* add_entity_to_graph.rule_details(rule), for a rule without ruleMappings:
\* the build state and the property's dict after the call; a rule type that
\* rule_types does not hold raises KeyError
rule_details(b, p_dict, entity, name, rule) ==
    IF rule.ruleType \notin DOMAIN rule_types THEN [b |-> KeyError(b), p_dict |-> p_dict]
    ELSE LET reference == Reference(name, entity.name)
             e_dict == (s_name :> name) @@ (s_entity :> entity.name)
                       @@ Link(rule_types[rule.ruleType])
                       @@ (s_rule_name :> rule.methodName)
             edged == add_edge(b.graph, entity.name, reference, e_dict)
         IN  [b      |-> [b EXCEPT !.graph = condition_edges(edged, reference,
                                                             rule.conditionIds, e_dict)],
              p_dict |-> Put(p_dict, rule_types[rule.ruleType], rule.methodName)]

\* the loop over the rules of one property: a CMD rule is registered in the
\* command table and nothing else is done with it
RECURSIVE entity_rules(_, _, _, _, _)
\* add_to_command_lookup(command, entity), and the call noted in the build's
\* record of its uses of the command table
LookupAdd(b, command, entity) ==
    [b EXCEPT !.COMMAND_LOOKUP = add_to_command_lookup(b.COMMAND_LOOKUP, command, entity),
              !.lookups = Append(@, [call |-> "add_to_command_lookup",
                                     command |-> command, entity |-> entity,
                                     result |-> << >>])]

\* get_command_entity(command, entity) noted in the build's record of its
\* uses of the command table
LookupGet(b, command, entity) ==
    [b EXCEPT !.lookups = Append(@, [call |-> "get_command_entity",
                                     command |-> command, entity |-> entity,
                                     result |-> get_command_entity(b.COMMAND_LOOKUP,
                                                                   command, entity)])]

entity_rules(b, p_dict, entity, name, rules) ==
    IF rules = << >> \/ b.raised THEN [b |-> b, p_dict |-> p_dict]
    ELSE LET rule == rules[1]
             next == IF rule.ruleType = "CMD"
                     THEN [b      |-> LookupAdd(b, name, entity.name),
                           p_dict |-> p_dict]
                     ELSE rule_details(b, p_dict, entity, name, rule)
         IN  entity_rules(next.b, next.p_dict, entity, name, Tail(rules))

\* add_entity_to_graph, the loop over the properties: a property is
\* <<name, rules>>; its node is added after its rules have been read
RECURSIVE entity_properties(_, _, _)
entity_properties(b, entity, properties) ==
    IF properties = << >> \/ b.raised THEN b
    ELSE LET name == properties[1][1]
             ruled == entity_rules(b, Property(name, entity.name), entity, name,
                                   properties[1][2])
         IN  entity_properties(
                 IF ruled.b.raised THEN ruled.b
                 ELSE [ruled.b EXCEPT !.graph =
                          add_node(ruled.b.graph, Reference(name, entity.name),
                                   ruled.p_dict)],
                 entity, Tail(properties))

add_entity_to_graph(b, entity) ==
    entity_properties([b EXCEPT !.graph = add_node(b.graph, entity.name, map(entity))],
                      entity, entity.properties)

\* add_metadata_to_graph, for metadata without data: the entity's node and a
\* node for every property
RECURSIVE metadata_properties(_, _, _)
metadata_properties(b, metadata, names) ==
    IF names = << >> THEN b
    ELSE metadata_properties(
             [b EXCEPT !.graph = add_node(b.graph, Reference(names[1], metadata.name),
                                          Property(names[1], metadata.name))],
             metadata, Tail(names))

add_metadata_to_graph(b, metadata) ==
    metadata_properties(
        [b EXCEPT !.graph = add_node(b.graph, metadata.name,
                                     Named(s_entity, metadata.name)
                                     @@ (s_entity :> metadata.name))],
        metadata, metadata.properties)

\* add_index_to_graph: a mapping is <<name, property>>, property << >> if none
RECURSIVE index_mappings(_, _, _)
index_mappings(b, entity_name, mappings) ==
    IF mappings = << >> THEN b
    ELSE LET field == mappings[1]
             index == (IF field[2] # << >> THEN (s_property :> field[2]) ELSE EmptyDict)
                      @@ Named(s_index, field[1]) @@ (s_entity :> entity_name)
             index_name == upper(field[1])
             noded == add_node(b.graph, index_name, Named(s_index, field[1]))
             edged == [b EXCEPT !.graph = add_edge(noded, entity_name, index_name, index)]
         IN  index_mappings(
                 IF field[2] # << >>
                 THEN PropertyEdge(edged, index_name, Reference(field[2], entity_name),
                                   Link(s_index))
                 ELSE edged,
                 entity_name, Tail(mappings))

add_index_to_graph(b, entity) == index_mappings(b, entity.name, entity.mappings)

\* the handler of image and sound records
add_media_to_graph(b, object) ==
    [b EXCEPT !.graph = add_node(b.graph, object.guid, map(object))]

\* XMLParser(xml): a malformed document raises
Raise(b) == [b EXCEPT !.raised = TRUE]

s_property_dependency == <<"p","r","o","p","e","r","t","y"," ","d","e","p","e","n","d","e","n","c","y">>

\* XMLParser._prop_dict
prop_dict(name) == (s_property :> name) @@ Link(s_property_dependency)

\* add_condition_to_graph: the node, then the parse of the expression, then an
\* edge for every property the expression names
RECURSIVE condition_properties(_, _, _)
condition_properties(b, condition, names) ==
    IF names = << >> THEN b
    ELSE condition_properties(
             PropertyEdge(b, condition.guid, Reference(names[1], condition.entity),
                          prop_dict(names[1])),
             condition, Tail(names))

add_condition_to_graph(b, condition) ==
    LET noded == [b EXCEPT !.graph = add_node(b.graph, condition.guid, map(condition))] IN
    IF condition.malformed THEN Raise(noded)
    ELSE condition_properties(noded, condition, condition.properties)

s_None            == <<"N","o","n","e">>
s_formflow_entity == <<"f","o","r","m","f","l","o","w"," ","e","n","t","i","t","y">>
s_Landing_Page    == <<"L","a","n","d","i","n","g"," ","P","a","g","e">>
s_business_test   == <<"b","u","s","i","n","e","s","s"," ","t","e","s","t">>
s_ref_type        == <<"r","e","f","_","t","y","p","e">>

\* "{}".format(entity): None is printed as the text None
EntityText(entity) == IF entity = << >> THEN s_None ELSE entity

\* task.map(), for a GlowObject made with settings["task"]
task_map(task) == Named(s_task, task.name)

\* add_task_edge_to_graph(graph, formflow, task)
add_task_edge_to_graph(b, formflow, task) ==
    IF task.task = "FRM" /\ task.target # << >>
    THEN [b EXCEPT !.graph = add_edge(b.graph, formflow.guid, lower(task.target),
                                      task_map(task)),
                   !.FORMSTEP_LOOKUP = Put(b.FORMSTEP_LOOKUP, task.name, lower(task.target))]
    ELSE IF task.task = "JMP" /\ task.target # << >>
    THEN [b EXCEPT !.graph = add_edge(b.graph, formflow.guid, lower(task.target),
                                      task_map(task))]
    ELSE IF task.task = "RUN" /\ task.target # << >>
    THEN LET entity == get_command_entity(b.COMMAND_LOOKUP, task.target, formflow.entity)
             command == Reference(task.target, EntityText(entity))
         IN  [LookupGet(b, task.target, formflow.entity)
                 EXCEPT !.graph = add_edge(b.graph, formflow.guid, command, task_map(task))]
    ELSE b

RECURSIVE formflow_tasks(_, _, _)
formflow_tasks(b, formflow, tasks) ==
    IF tasks = << >> THEN b
    ELSE formflow_tasks(add_task_edge_to_graph(b, formflow, tasks[1]), formflow, Tail(tasks))

s_show_form_task        == <<"s","h","o","w"," ","f","o","r","m"," ","t","a","s","k">>
s_jump_to_formflow_task == <<"j","u","m","p"," ","t","o"," ","f","o","r","m","f","l","o","w"," ","t","a","s","k">>
s_run_command_task      == <<"r","u","n"," ","c","o","m","m","a","n","d"," ","t","a","s","k">>

\* XMLParser._template_dict, _formflow_dict, _command_dict, for an element
\* that carries DisplayName and its reference and no ResKey
template_dict(activity) ==
    (s_name :> activity.name) @@ (s_template :> activity.target) @@ Link(s_show_form_task)

formflow_dict(activity) ==
    (s_name :> activity.name) @@ (s_formflow :> activity.target)
    @@ Link(s_jump_to_formflow_task)

command_dict(activity) ==
    (s_name :> activity.name) @@ (s_command :> activity.target)
    @@ Link(s_run_command_task)

\* xml_parser.iterfind(tag): the elements of the document with the tag
iterfind(data, tag) == SelectSeq(data, LAMBDA activity : activity.activity = tag)

\* add_formflow_to_graph, the loops over the embedded document: the forms
\* shown, then the formflows jumped to, then the commands run
RECURSIVE formflow_data(_, _, _)
formflow_data(b, formflow, activities) ==
    IF activities = << >> THEN b
    ELSE LET activity == activities[1]
             next ==
                IF activity.activity = "ShowFormActivity"
                THEN [b EXCEPT !.FORMSTEP_LOOKUP = Put(b.FORMSTEP_LOOKUP, activity.name,
                                                       lower(activity.target)),
                               !.graph = add_edge(b.graph, formflow.guid,
                                                  lower(activity.target),
                                                  template_dict(activity))]
                ELSE IF activity.activity = "JumpToActivity"
                THEN [b EXCEPT !.graph = add_edge(b.graph, formflow.guid,
                                                  lower(activity.target),
                                                  formflow_dict(activity))]
                ELSE LET entity == get_command_entity(b.COMMAND_LOOKUP, activity.target,
                                                      formflow.entity)
                     IN  [LookupGet(b, activity.target, formflow.entity)
                             EXCEPT !.graph = add_edge(b.graph, formflow.guid,
                                                       Reference(activity.target,
                                                                 EntityText(entity)),
                                                       command_dict(activity))]
         IN  formflow_data(next, formflow, Tail(activities))

\* a mutant of add_formflow_to_graph: the embedded document is read only when
\* the formflow has no task list
add_formflow_to_graph_Either(b, formflow) ==
    LET noded == [b EXCEPT !.graph = add_node(b.graph, formflow.guid, map(formflow)),
                           !.FORMFLOW_LOOKUP = Put(b.FORMFLOW_LOOKUP, formflow.name,
                                                   formflow.guid)]
        tasked == formflow_tasks(noded, formflow, formflow.tasks)
    IN  IF formflow.tasks # << >> THEN tasked
        ELSE formflow_data(tasked, formflow, formflow.data)

\* add_formflow_to_graph, for a formflow without image and conditions whose
\* embedded document, when it parses, holds ShowFormActivity, JumpToActivity
\* and RunCommandActivity elements only
add_formflow_to_graph(b, formflow) ==
    LET noded == [b EXCEPT !.graph = add_node(b.graph, formflow.guid, map(formflow)),
                           !.FORMFLOW_LOOKUP = Put(b.FORMFLOW_LOOKUP, formflow.name,
                                                   formflow.guid)]
        owned == IF formflow.entity # << >>
                 THEN [noded EXCEPT !.graph = add_edge(noded.graph, formflow.entity,
                                                       formflow.guid,
                                                       Link(s_formflow_entity))]
                 ELSE noded
        tasked == formflow_tasks(owned, formflow, formflow.tasks)
    IN  IF formflow.malformed THEN Raise(tasked)
        ELSE formflow_data(tasked, formflow,
                           iterfind(formflow.data, "ShowFormActivity")
                           \o iterfind(formflow.data, "JumpToActivity")
                           \o iterfind(formflow.data, "RunCommandActivity"))

\* add_module_to_graph
add_module_to_graph(b, module) ==
    LET noded == [b EXCEPT !.graph = add_node(b.graph, module.guid, map(module))] IN
    IF module.template # << >>
    THEN [noded EXCEPT !.graph = add_edge(noded.graph, module.guid, lower(module.template),
                                          Link(s_module) @@ (s_name :> s_Landing_Page)
                                          @@ (s_template :> module.template)),
                       !.MODULE_LOOKUP = Put(noded.MODULE_LOOKUP, module.code, module.guid)]
    ELSE noded

\* a mutant of tile_dict: the tile is not given a type
tile_dict_Untyped(template, tile) ==
    (tile[1] :> tile[2])
    @@ (IF template.entity # << >> THEN (s_entity :> template.entity) ELSE EmptyDict)

\* analyse_tiles: a tile is <<topic, value>>, topic being formflow or property
tile_dict(template, tile) ==
    (tile[1] :> tile[2]) @@ (s_type :> s_tile)
    @@ (IF template.entity # << >> THEN (s_entity :> template.entity) ELSE EmptyDict)

RECURSIVE analyse_tiles(_, _, _)
analyse_tiles(b, template, tiles) ==
    IF tiles = << >> \/ b.raised THEN b
    ELSE LET tile == tile_dict(template, tiles[1])
             next == IF tiles[1][1] = s_formflow
                     THEN [b EXCEPT !.graph = add_edge(b.graph, template.guid,
                                                       lower(tile[s_formflow]), tile)]
                     ELSE IF tiles[1][1] = s_command
                     THEN IF s_entity \notin DOMAIN tile
                          THEN KeyError(b)
                          ELSE LET entity == get_command_entity(b.COMMAND_LOOKUP,
                                                                tile[s_command],
                                                                tile[s_entity])
                               IN  [LookupGet(b, tile[s_command], tile[s_entity])
                                       EXCEPT !.graph =
                                           add_edge(b.graph, template.guid,
                                                    Reference(tile[s_command],
                                                              EntityText(entity)),
                                                    tile)]
                     ELSE PropertyEdge(b, template.guid,
                                       Reference(tile[s_property],
                                                 EntityText(template.entity)),
                                       tile)
         IN  analyse_tiles(next, template, Tail(tiles))

\* the placeholders bound to a property
RECURSIVE bound_properties(_, _, _)
bound_properties(b, template, props) ==
    IF props = << >> THEN b
    ELSE bound_properties(
             PropertyEdge(b, template.guid,
                          Reference(props[1], EntityText(template.entity)),
                          (s_property :> props[1]) @@ Link(s_bound)),
             template, Tail(props))

\* add_template_to_graph, for a template without images, components, captions
\* and search lists; template.dependencies is not read
add_template_to_graph(b, template) ==
    LET noded == [b EXCEPT !.FORMSTEP_LOOKUP = Put(b.FORMSTEP_LOOKUP, template.name,
                                                   template.guid),
                           !.graph = add_node(b.graph, template.guid, map(template))]
    IN  IF template.malformed THEN Raise(noded)
        ELSE LET tiled == analyse_tiles(noded, template, template.tiles) IN
             IF tiled.raised THEN tiled
             ELSE bound_properties(tiled, template, template.bound)

\* a mutant of test_edges: the names are not looked up
RECURSIVE test_edges_Raw(_, _, _, _, _)
test_edges_Raw(graph, test, lookup, ref_type, names) ==
    IF names = << >> THEN graph
    ELSE test_edges_Raw(add_edge(graph, test.name, names[1],
                                 Link(s_business_test) @@ (s_ref_type :> ref_type)
                                 @@ (s_name :> names[1])),
                        test, lookup, ref_type, Tail(names))

\* the edges of a business test to the objects of one kind that its text names
RECURSIVE test_edges(_, _, _, _, _)
test_edges(graph, test, lookup, ref_type, names) ==
    IF names = << >> THEN graph
    ELSE test_edges(add_edge(graph, test.name, Get(lookup, names[1], names[1]),
                             Link(s_business_test) @@ (s_ref_type :> ref_type)
                             @@ (s_name :> names[1])),
                    test, lookup, ref_type, Tail(names))

\* create_graph, the body of the loop over the business tests
add_test_to_graph(b, test) ==
    IF test.ignore THEN b
    ELSE LET noded     == add_node(b.graph, test.name, Named(s_test, test.name))
             modules   == test_edges(noded, test, b.MODULE_LOOKUP, s_module, test.module)
             templates == test_edges(modules, test, b.FORMSTEP_LOOKUP, s_template,
                                     test.template)
             formflows == test_edges(templates, test, b.FORMFLOW_LOOKUP, s_formflow,
                                     test.formflow)
         IN  [b EXCEPT !.graph = formflows]

\* create_graph.process_glow_object
process_glow_object(b, glow_object) ==
    IF glow_object.type = s_entity THEN add_entity_to_graph(b, glow_object)
    ELSE IF glow_object.type = s_index THEN add_index_to_graph(b, glow_object)
    ELSE IF glow_object.type = s_metadata THEN add_metadata_to_graph(b, glow_object)
    ELSE IF glow_object.type = s_condition THEN add_condition_to_graph(b, glow_object)
    ELSE IF glow_object.type = s_formflow THEN add_formflow_to_graph(b, glow_object)
    ELSE IF glow_object.type \in {s_image, s_sound} THEN add_media_to_graph(b, glow_object)
    ELSE IF glow_object.type = s_module THEN add_module_to_graph(b, glow_object)
    ELSE IF glow_object.type = s_template THEN add_template_to_graph(b, glow_object)
    ELSE b

load_list == <<s_entity, s_metadata, s_index, s_image, s_sound>>

\* the files of the given kinds: kind by kind, and within a kind in the order
\* glob yields them
RECURSIVE FilesOf(_, _)
FilesOf(records, kinds) ==
    IF kinds = << >> THEN << >>
    ELSE SelectSeq(records, LAMBDA r : r.type = kinds[1]) \o FilesOf(records, Tail(kinds))

\* the loops of create_graph over the files: an exception ends the build
RECURSIVE process_files(_, _)
process_files(b, records) ==
    IF records = << >> \/ b.raised THEN b
    ELSE LET started == [b EXCEPT !.order = Append(@, records[1].type)] IN
         process_files(IF records[1].type = s_test
                       THEN add_test_to_graph(started, records[1])
                       ELSE process_glow_object(started, records[1]),
                       Tail(records))

\* a mutant of create_graph: the analysed kinds are processed before the load list
create_graph_AnalysedFirst(records, analysed, b) ==
    process_files(b, FilesOf(records, analysed) \o FilesOf(records, load_list)
                     \o FilesOf(records, <<s_test>>))

\* a mutant of create_graph: the business tests are read before the objects
\* they refer to
create_graph_TestsFirst(records, analysed, b) ==
    process_files(b, FilesOf(records, load_list) \o FilesOf(records, <<s_test>>)
                     \o FilesOf(records, analysed))

\* create_graph(): the entity related records, then the records of the kinds
\* glow_file_objects(omit=omit_list) yields, then the business tests
create_graph(records, analysed, b) ==
    process_files(b, FilesOf(records, load_list) \o FilesOf(records, analysed)
                     \o FilesOf(records, <<s_test>>))

-----------------------------------------------------------------------------
(* main(): the first build, the cache, the command loop *)

\* a rule of an entity property
Rule(ruleType, methodName, conditionIds) ==
    [ruleType |-> ruleType, methodName |-> methodName, conditionIds |-> conditionIds]

\* an entity whose properties are commands: each carries one CMD rule
Entity(name, commands) ==
    [type |-> s_entity, name |-> name,
     properties |-> [i \in 1..Len(commands) |->
                        <<commands[i], <<Rule("CMD", commands[i], << >>)>>>>]]

\* an entity with the given properties, each <<name, rules>>
EntityWithRules(name, properties) ==
    [type |-> s_entity, name |-> name, properties |-> properties]

Metadata(name, properties) ==
    [type |-> s_metadata, name |-> name, properties |-> properties]

Index(name, mappings) == [type |-> s_index, name |-> name, mappings |-> mappings]

Image(guid, name) == [type |-> s_image, guid |-> guid, name |-> name]

Condition(guid, name, entity, malformed, properties) ==
    [type |-> s_condition, guid |-> guid, name |-> name, entity |-> entity,
     malformed |-> malformed, properties |-> properties]

Task(task, name, target) == [task |-> task, name |-> name, target |-> target]

\* a formflow whose embedded document, if it is well-formed, holds no activity
Formflow(guid, name, entity, tasks, malformed) ==
    [type |-> s_formflow, guid |-> guid, name |-> name, entity |-> entity,
     tasks |-> tasks, malformed |-> malformed, data |-> << >>]

\* an element of a formflow's embedded document
Activity(tag, name, target) == [activity |-> tag, name |-> name, target |-> target]

\* the formflow with the given elements in its embedded document
WithData(formflow, data) == [formflow EXCEPT !.data = data]

\* a template without a dependencies document
Template(guid, name, entity, malformed, tiles, bound) ==
    [type |-> s_template, guid |-> guid, name |-> name, entity |-> entity,
     malformed |-> malformed, tiles |-> tiles, bound |-> bound,
     dependencies |-> << >>]

\* the template with a dependencies document that cites the given templates
\* and properties, each <<"template", key>> or <<"property", path>>
WithDependencies(template, dependencies) ==
    [template EXCEPT !.dependencies = dependencies]

Module(guid, name, code, template) ==
    [type |-> s_module, guid |-> guid, name |-> name, code |-> code,
     template |-> template]

Test(name, ignore, module, template, formflow) ==
    [type |-> s_test, name |-> name, ignore |-> ignore, module |-> module,
     template |-> template, formflow |-> formflow]

\* a formflow that runs a command of another entity, and a test of it
DiskCommands ==
    <<Test(s_Test, FALSE, <<s_Zed>>, << >>, <<s_Flow>>),
      Formflow(s_w, s_Flow, s_F, <<Task("RUN", s_Bar, s_Approve)>>, FALSE),
      Entity(s_E, <<s_Approve>>)>>

\* a module, its template with a tile and a bound property, and a test of both
DiskTemplate ==
    <<Module(s_m, s_Mod, s_Mod, s_T),
      Template(s_t, s_Main, s_E, FALSE, <<<<s_formflow, s_W>>>>, <<s_Foo>>),
      Metadata(s_E, <<s_Foo>>),
      Test(s_Test, FALSE, <<s_Mod>>, <<s_Main>>, << >>)>>

\* a condition whose expression is malformed, among well-formed records
DiskMalformedCondition ==
    <<Condition(s_c, s_Bar, s_E, TRUE, << >>),
      Template(s_t, s_Main, << >>, FALSE, << >>, << >>),
      Image(s_p, s_Foo)>>

\* a formflow whose embedded document is malformed
DiskMalformedFormflow ==
    <<Formflow(s_w, s_Flow, << >>, <<Task("FRM", s_Main, s_T)>>, TRUE),
      Metadata(s_E, <<s_FooBar>>),
      Condition(s_c, s_Bar, s_E, FALSE, <<s_Foo>>)>>

\* an index mapping whose upper-cased name is the name of an entity
DiskIndex ==
    <<Index(s_E, << <<s_Foo, << >> >> >>), Entity(s_FOO, << >>), Entity(s_E, << >>)>>

\* a test marked ignore
DiskIgnoredTest ==
    <<Test(s_Test, TRUE, <<s_Mod>>, << >>, << >>), Image(s_p, s_Bar)>>

Disks ==
    {DiskCommands, DiskTemplate, DiskMalformedCondition, DiskMalformedFormflow,
     DiskIndex, DiskIgnoredTest, << >>}

AnalysedKinds == {s_condition, s_formflow, s_module, s_template}

\* glow_file_objects(omit=omit_list): the kinds in the order the settings
\* dict yields them
KindOrders ==
    {o \in {<<a, b, c, d>> : a \in AnalysedKinds, b \in AnalysedKinds,
                             c \in AnalysedKinds, d \in AnalysedKinds} :
        \A i, j \in 1..4 : o[i] = o[j] => i = j}


s_cmd_minimal == <<"$","$","m","i","n","i","m","a","l","=">>
s_cmd_regen   == <<"$","$","r","e","g","e","n">>

\* whether special_command(query) handles the query
IsSpecial(query) ==
    \E prefix \in {s_cmd_max_level, s_cmd_ignore, s_cmd_edges, s_cmd_minimal, s_cmd_regen} :
        startswith(query, prefix)

\* a mutant of invalid_regex: the empty string passes
invalid_regex_EmptyPasses(expression) == ~re_compiles(expression)

\* invalid_regex(expression): the empty string, or a pattern re.compile refuses
invalid_regex(expression) ==
    IF expression # << >> THEN ~re_compiles(expression) ELSE TRUE

\* nodes and query.isdigit() and int(query) in range(len(nodes))
IsIndex(query) ==
    /\ nodes # << >>
    /\ IsInt(query)
    /\ StrToInt(query) < Len(nodes)

\* the module's tables and settings as a build finds them
Building(commands, formsteps, formflows, modules) ==
    BuildState(EmptyGraph, commands, formsteps, formflows, modules,
               IGNORE_TYPES, EDGE_MATCH)

\* GLOW_GRAPH = create_graph(); print_graph_info(GLOW_GRAPH): an exception
\* leaves GLOW_GRAPH as it was and ends the process, as does an empty graph;
\* what the handlers wrote to the tables stays
Built(b) ==
    /\ COMMAND_LOOKUP' = b.COMMAND_LOOKUP
    /\ FORMSTEP_LOOKUP' = b.FORMSTEP_LOOKUP
    /\ FORMFLOW_LOOKUP' = b.FORMFLOW_LOOKUP
    /\ MODULE_LOOKUP' = b.MODULE_LOOKUP
    /\ GLOW_GRAPH' = IF b.raised THEN GLOW_GRAPH ELSE b.graph
    /\ pc' = IF b.raised \/ DOMAIN b.graph.node = {} THEN "exited" ELSE "prompt"
    /\ last' = [op       |-> "create_graph",
                order    |-> b.order,
                raised   |-> b.raised,
                lookups  |-> b.lookups,
                graph    |-> b.graph,
                reported |-> IF b.raised THEN << >> ELSE missing_nodes(b.graph)]

\* main(): no cache file, the graph is built
StartBuild ==
    /\ pc = "start"
    /\ \E analysed \in KindOrders :
         Built(create_graph(files, analysed,
                            Building(COMMAND_LOOKUP, FORMSTEP_LOOKUP, FORMFLOW_LOOKUP,
                                     MODULE_LOOKUP)))
    /\ UNCHANGED <<MAX_LEVEL, IGNORE_TYPES, EDGE_MATCH, nodes, func, stack, seen, out,
                   files>>

\* main(): the graph an earlier run built from the same files and saved is
\* loaded from the cache file; the tables are not part of it
LoadCache ==
    /\ pc = "start"
    /\ \E analysed \in KindOrders :
         LET b == create_graph(files, analysed, Building(<< >>, << >>, << >>, << >>)) IN
         /\ ~b.raised
         /\ DOMAIN b.graph.node # {}
         /\ GLOW_GRAPH' = b.graph
         /\ last' = [op |-> "load_object_from_file", reported |-> missing_nodes(b.graph)]
    /\ pc' = "prompt"
    /\ UNCHANGED <<COMMAND_LOOKUP, FORMSTEP_LOOKUP, FORMFLOW_LOOKUP, MODULE_LOOKUP,
                   MAX_LEVEL, IGNORE_TYPES, EDGE_MATCH, nodes, func, stack, seen, out,
                   files>>

\* every owner list leaves room for one more build
RoomForBuild ==
    \A command \in DOMAIN COMMAND_LOOKUP : Len(COMMAND_LOOKUP[command]) < MaxOwners

\* '$$regen': GLOW_GRAPH = create_graph(); print_graph_info(GLOW_GRAPH)
cmd_regen(query) ==
    /\ pc = "prompt"
    /\ ~Walking
    /\ startswith(query, s_cmd_regen)
    /\ RoomForBuild
    /\ \E analysed \in KindOrders :
         /\ Built(create_graph(files, analysed,
                               Building(COMMAND_LOOKUP, FORMSTEP_LOOKUP, FORMFLOW_LOOKUP,
                                        MODULE_LOOKUP)))
    /\ NewPrompt
    /\ UNCHANGED <<MAX_LEVEL, IGNORE_TYPES, EDGE_MATCH, nodes, func, stack, files>>

\* main(): the query is refused as an invalid regex
Reject(query) ==
    /\ pc = "prompt"
    /\ ~Walking
    /\ ~IsSpecial(query)
    /\ ~IsIndex(query)
    /\ invalid_regex(query)
    /\ NewPrompt
    /\ last' = [op |-> "invalid_regex", query |-> query]
    /\ UNCHANGED <<session, GLOW_GRAPH, COMMAND_LOOKUP, MAX_LEVEL, IGNORE_TYPES,
                   EDGE_MATCH, nodes, func, stack>>

\* main(): the query is a regex, the nodes are selected
Query(query) ==
    /\ ~IsSpecial(query)
    /\ ~IsIndex(query)
    /\ ~invalid_regex(query)
    /\ Select(query)

\* main(): the query is the number of a node of the current list
print_selected_node(query) ==
    /\ ~IsSpecial(query)
    /\ IsIndex(query)
    /\ \/ print_parents(nodes[StrToInt(query) + 1][1])
       \/ print_children(nodes[StrToInt(query) + 1][1])

q_regen       == s_cmd_regen
q_ignore_two  == s_cmd_ignore \o s_entity \o <<",", " ">> \o s_test
q_ignore_none == s_cmd_ignore
q_ignore_bad  == s_cmd_ignore \o <<"*", "*">>
q_edges       == s_cmd_edges \o s_True
q_empty       == << >>
q_star        == <<"*", "a">>
q_zero        == <<"0">>
q_entity      == <<"e","n","t","i","t","y">>
q_test        == <<"t","e","s","t">>
q_unbounded   == s_cmd_max_level \o <<"0">>

SessionQueries ==
    {q_regen, q_ignore_two, q_ignore_none, q_ignore_bad, q_edges,
     q_empty, q_star, q_zero, q_entity, q_test, q_unbounded, q_any}

InitMain ==
    /\ files \in Disks
    /\ GLOW_GRAPH = EmptyGraph
    /\ COMMAND_LOOKUP = << >>
    /\ FORMSTEP_LOOKUP = << >>
    /\ FORMFLOW_LOOKUP = << >>
    /\ MODULE_LOOKUP = << >>
    /\ pc = "start"
    /\ InitSettings
    /\ nodes = << >>
    /\ func = "successors"
    /\ stack = << >>
    /\ seen = << >>
    /\ out = << >>
    /\ last = [op |-> "none"]

NextMain ==
    \/ StartBuild
    \/ LoadCache
    \/ \E q \in SessionQueries : cmd_regen(q)
    \/ \E q \in SessionQueries : cmd_max_level(q)
    \/ \E q \in SessionQueries : cmd_ignore(q)
    \/ \E q \in SessionQueries : cmd_edges(q)
    \/ \E q \in SessionQueries : Reject(q)
    \/ \E q \in SessionQueries : Query(q)
    \/ \E q \in SessionQueries : print_selected_node(q)
    \/ WalkSkipIgnored
    \/ WalkEmit
    \/ WalkUndefined
    \/ WalkReturn

SpecMain == InitMain /\ [][NextMain]_vars

KeysKnown == DOMAIN GLOW_GRAPH.node \subseteq Range(KeyOrder)


-----------------------------------------------------------------------------
(* Builds alone: every order in which glob may yield the files *)

Orderings(records) ==
    LET n == Len(records) IN
    {[i \in 1..n |-> records[f[i]]] :
        f \in {g \in [1..n -> 1..n] : \A i, j \in 1..n : g[i] = g[j] => i = j}}

\* a formflow whose task list and embedded document make the same three
\* references, and the entity that owns the command
DiskBothSources ==
    <<WithData(Formflow(s_w, s_Flow, s_F,
                        <<Task("FRM", s_Main, s_T), Task("JMP", s_Bar, s_W),
                          Task("RUN", s_Foo, s_Approve)>>,
                        FALSE),
               <<Activity("RunCommandActivity", s_Foo, s_Approve),
                 Activity("ShowFormActivity", s_Main, s_T),
                 Activity("JumpToActivity", s_Bar, s_W)>>),
      Entity(s_E, <<s_Approve>>)>>

\* an entity with a command and a validated property whose rules cite a
\* condition, and the condition
DiskRules ==
    <<EntityWithRules(s_E, << <<s_Approve, <<Rule("CMD", s_Approve, <<s_C>>)>>>>,
                              <<s_Foo, <<Rule("VAL", s_Bar, <<s_C>>)>>>> >>),
      Condition(s_c, s_Bar, s_E, FALSE, << >>)>>

\* an entity with a rule of a type that rule_types does not hold
DiskUnknownRule ==
    <<EntityWithRules(s_E, << <<s_Foo, <<Rule("XXX", s_Bar, << >>)>>>> >>),
      Image(s_p, s_Bar)>>

\* an index mapping and a condition that refer to property Foo of entity E,
\* which has property FooBar only
DiskFallback ==
    <<Condition(s_c, s_Bar, s_E, FALSE, <<s_Foo>>),
      Index(s_E, << <<s_Zed, s_Foo>> >>),
      Metadata(s_E, <<s_FooBar>>)>>

\* a template whose dependencies document cites a template and a property
DiskDependencies ==
    <<WithDependencies(Template(s_t, s_Main, s_E, FALSE, << >>, << >>),
                       << <<s_template, s_W>>, <<s_property, s_Foo>> >>),
      Metadata(s_E, <<s_Foo>>)>>

\* a command of entity E run by a task and an activity of a formflow of entity
\* F and by a tile of a template of entity G
DiskTileCommand ==
    <<WithData(Formflow(s_w, s_Flow, s_F, <<Task("RUN", s_Bar, s_Approve)>>, FALSE),
               <<Activity("RunCommandActivity", s_Foo, s_Approve)>>),
      Template(s_t, s_Main, s_G, FALSE, <<<<s_command, s_Approve>>>>, << >>),
      Entity(s_E, <<s_Approve>>)>>

BuildDisks ==
    Disks \cup {DiskBothSources, DiskRules, DiskUnknownRule, DiskFallback,
                DiskDependencies, DiskTileCommand}

DiskOrders == UNION {Orderings(d) : d \in BuildDisks}

InitCreate ==
    /\ files \in DiskOrders
    /\ GLOW_GRAPH = EmptyGraph
    /\ COMMAND_LOOKUP = << >>
    /\ FORMSTEP_LOOKUP = << >>
    /\ FORMFLOW_LOOKUP = << >>
    /\ MODULE_LOOKUP = << >>
    /\ pc = "start"
    /\ InitSettings
    /\ nodes = << >>
    /\ func = "successors"
    /\ stack = << >>
    /\ seen = << >>
    /\ out = << >>
    /\ last = [op |-> "none"]

q_ignore_property == s_cmd_ignore \o s_property

NextCreate ==
    \/ StartBuild
    \/ LoadCache
    \/ \E q \in {q_regen} : cmd_regen(q)
    \/ \E q \in {q_ignore_property} : cmd_ignore(q)
    \/ \E q \in {q_edges} : cmd_edges(q)

SpecCreate == InitCreate /\ [][NextCreate]_vars

-----------------------------------------------------------------------------
(* Properties of the build *)

\* create_graph has run
Ran == last.op = "create_graph"

\* create_graph has run to its end
Completed == Ran /\ ~last.raised

LoadedKinds == {s_entity, s_metadata, s_index, s_image, s_sound}

Before(i, j) == i < j

\* C13: in the order in which a build processes the records, no entity,
\* metadata, index, image or sound record comes after a condition, formflow,
\* template or module record, no record of these kinds comes after a business
\* test, and a build that runs to its end has processed every record.
C13_BuildOrder ==
    Ran =>
        /\ \A i, j \in 1..Len(last.order) :
             Before(i, j) =>
                /\ ~(last.order[i] \in AnalysedKinds /\ last.order[j] \in LoadedKinds)
                /\ ~(last.order[i] = s_test /\ last.order[j] # s_test)
        /\ ~last.raised => Len(last.order) = Len(files)

\* glob yields a module first and a test before the metadata; the metadata was
\* processed first and the test last
C13_Witness ==
    /\ Completed
    /\ Len(files) = 4
    /\ files[1].type = s_module
    /\ \E i, j \in 1..4 : i < j /\ files[i].type = s_test /\ files[j].type = s_metadata
    /\ last.order[1] = s_metadata
    /\ last.order[4] = s_test


-----------------------------------------------------------------------------
(* Properties of the command loop *)

\* the step is the handling of a query that the loop has just read
Asked(op, query) == op.op \in {"special_command", "invalid_regex", "select_nodes"}
                    /\ op.query = query

SettingsKept ==
    /\ MAX_LEVEL' = MAX_LEVEL
    /\ IGNORE_TYPES' = IGNORE_TYPES
    /\ EDGE_MATCH' = EDGE_MATCH

\* the query handled by the step left the graph, the settings and the result
\* list as they were, and select_nodes was not called with it
Refused ==
    /\ last'.op # "select_nodes"
    /\ GLOW_GRAPH' = GLOW_GRAPH
    /\ SettingsKept
    /\ nodes' = nodes

\* the query that the step of the loop handles, when it records one
Handles(query) ==
    /\ last' # last
    /\ "query" \in DOMAIN last'
    /\ last'.query = query

\* C12 as claimed: whatever the query, if invalid_regex is true of it then the
\* loop does not call select_nodes with it and leaves the graph, the settings
\* and the result list unchanged.
C12_InvalidRejected ==
    [][\A q \in SessionQueries :
          (Handles(q) /\ (q = << >> \/ ~re_compiles(q))) => Refused]_vars

\* C12 as amended: a query that is not a special command (it does not begin
\* with $$max_level=, $$ignore=, $$edges=, $$minimal= or $$regen) and for which
\* invalid_regex is true is rejected before any evaluation: select_nodes is
\* not called with it and the graph, the settings and the result list are
\* unchanged.
C12_InvalidNonSpecialRejected ==
    [][\A q \in SessionQueries :
          (Handles(q) /\ ~IsSpecial(q) /\ (q = << >> \/ ~re_compiles(q)))
              => (Refused /\ last'.op = "invalid_regex")]_vars

\* a pattern that does not compile was refused while a result list was shown
C12_Witness ==
    /\ last.op = "invalid_regex"
    /\ last.query = q_star
    /\ nodes # << >>
    /\ pc = "prompt"


\* the tables a first build from the records on disk produces
FirstBuild(analysed) ==
    create_graph(files, analysed, Building(<< >>, << >>, << >>, << >>))

TablesOf(b) ==
    <<b.COMMAND_LOOKUP, b.FORMSTEP_LOOKUP, b.FORMFLOW_LOOKUP, b.MODULE_LOOKUP>>

Tables == <<COMMAND_LOOKUP, FORMSTEP_LOOKUP, FORMFLOW_LOOKUP, MODULE_LOOKUP>>

\* C14 as claimed: after a build that ran to its end, the first at start or a
\* rebuild by $$regen, the four lookup tables hold exactly the entries that a
\* first build from the same records produces, no owner being left over or
\* duplicated.
C14_RebuildReplacesTables ==
    Completed => \E analysed \in KindOrders : Tables = TablesOf(FirstBuild(analysed))

\* the step is a rebuild: the last call is create_graph and no walk is under
\* way before or after it (every other step that leaves no walk under way
\* records its own call)
Rebuilds == last'.op = "create_graph" /\ stack = << >> /\ stack' = << >>

\* C15: at the prompt, no step other than a rebuild ($$regen) adds or removes
\* a node or an edge of the graph or changes the attributes of an edge, and
\* none changes one of the four lookup tables: select_nodes, print_parents,
\* print_children, every step of a walk, the settings commands and the
\* rejection of a query all leave them as they are.
C15_GraphReadOnlyAfterBuild ==
    [][(pc = "prompt" /\ ~Rebuilds)
          => /\ DOMAIN GLOW_GRAPH'.node = DOMAIN GLOW_GRAPH.node
             /\ GLOW_GRAPH'.edge = GLOW_GRAPH.edge
             /\ COMMAND_LOOKUP' = COMMAND_LOOKUP
             /\ FORMSTEP_LOOKUP' = FORMSTEP_LOOKUP
             /\ FORMFLOW_LOOKUP' = FORMFLOW_LOOKUP
             /\ MODULE_LOOKUP' = MODULE_LOOKUP]_vars

\* after a settings command and a selection, a walk over a graph with edges
\* and a node without data has finished
C15_Witness ==
    /\ pc = "prompt"
    /\ last.op = "select_nodes"
    /\ WalkFinished
    /\ out # << >>
    /\ IGNORE_TYPES # << >>
    /\ \E n \in DOMAIN GLOW_GRAPH.node : Dataless(n)
    /\ FORMFLOW_LOOKUP # << >>


\* the business tests on disk
Tests == {files[i] : i \in {j \in 1..Len(files) : files[j].type = s_test}}

\* the edges of the built graph from u to v that carry the given reference
Refs(graph, u, v, ref_type, name) ==
    IF <<u, v>> \in DOMAIN graph.edge
    THEN {i \in 1..Len(graph.edge[<<u, v>>]) :
             LET e == graph.edge[<<u, v>>][i] IN
             /\ s_ref_type \in DOMAIN e /\ e[s_ref_type] = ref_type
             /\ s_name \in DOMAIN e /\ e[s_name] = name
             /\ e[s_type] = s_link}
    ELSE {}

Registered(table, name) == IF name \in DOMAIN table THEN table[name] ELSE name

\* every name of the list has exactly one edge, to the key the table gives
\* for it or to the name itself
Linked(graph, test, table, ref_type, names) ==
    \A i \in 1..Len(names) :
        /\ Cardinality(Refs(graph, test.name, Registered(table, names[i]),
                            ref_type, names[i])) = 1
        /\ \A v \in DOMAIN graph.node :
             v # Registered(table, names[i])
                => Refs(graph, test.name, v, ref_type, names[i]) = {}

\* C16: after a build that ran to its end, a business test that is not marked
\* ignore has, for each module, template and formflow name matched in its
\* text, exactly one edge that carries the name, from the test's node to the
\* key the table of that kind holds for the name, or to the name itself when
\* the table has no entry; it has no other edge; a test marked ignore has
\* neither a node nor an edge.
C16_TestEdges ==
    Completed =>
        \A test \in Tests :
            IF test.ignore
            THEN test.name \notin DOMAIN last.graph.node
            ELSE /\ test.name \in DOMAIN last.graph.node
                 /\ Linked(last.graph, test, MODULE_LOOKUP, s_module, test.module)
                 /\ Linked(last.graph, test, FORMSTEP_LOOKUP, s_template, test.template)
                 /\ Linked(last.graph, test, FORMFLOW_LOOKUP, s_formflow, test.formflow)
                 /\ out_degree(last.graph, test.name)
                      = Len(test.module) + Len(test.template) + Len(test.formflow)

\* a test names a module and a template that were resolved through the tables
C16_Witness ==
    /\ Completed
    /\ \E test \in Tests :
         /\ ~test.ignore
         /\ test.module = <<s_Mod>>
         /\ MODULE_LOOKUP = (s_Mod :> s_m)
         /\ <<test.name, s_m>> \in DOMAIN last.graph.edge
         /\ <<test.name, s_t>> \in DOMAIN last.graph.edge

\* the records whose embedded document is malformed
Malformed(r) == "malformed" \in DOMAIN r /\ r.malformed

Records == {files[i] : i \in 1..Len(files)}

\* the key and kind of the node that a record of its own gives
NodeOf(r) ==
    IF r.type \in {s_entity, s_metadata} THEN <<r.name, s_entity>>
    ELSE IF r.type = s_test THEN <<r.name, s_test>>
    ELSE <<r.guid, r.type>>

HasNode(r) == r.type # s_index /\ ~(r.type = s_test /\ r.ignore)

\* C17 as claimed: when the embedded document of a record is malformed the
\* build still finishes, the program is at its prompt, and the graph holds
\* the node of every other record.
C17_MalformedRecordSkipped ==
    (Ran /\ \E r \in Records : Malformed(r)) =>
        /\ pc = "prompt"
        /\ \A r \in Records :
             (~Malformed(r) /\ HasNode(r)) => NodeOf(r)[1] \in DOMAIN GLOW_GRAPH.node


\* the attribute bags of the edges of a graph
EdgeBags(graph) ==
    UNION {Range(graph.edge[p]) : p \in DOMAIN graph.edge}

\* C18 as claimed: every edge of the built graph carries type "link" and a
\* link_type.
C18_EveryEdgeIsLink ==
    Completed =>
        \A e \in EdgeBags(last.graph) :
            /\ s_type \in DOMAIN e
            /\ e[s_type] = s_link
            /\ s_link_type \in DOMAIN e

\* the edge is the one add_index_to_graph makes from an entity to an index
FromIndexMapping(graph, p) ==
    /\ s_type \in DOMAIN graph.node[p[2]]
    /\ graph.node[p[2]][s_type] = s_index

\* C18 as amended: every edge of the built graph carries a type; the type is
\* "link", with a link_type, except on the edges made from a template's tiles
\* (type "tile"), on the edges made from the tasks of a formflow's task list
\* (the type of the task object) and on the edge from an entity to each of
\* its indexes (type "index"), which carry no link_type.
C18_EveryEdgeIsTyped ==
    Completed =>
        \A p \in DOMAIN last.graph.edge :
            \A i \in 1..Len(last.graph.edge[p]) :
                LET e == last.graph.edge[p][i] IN
                /\ s_type \in DOMAIN e
                /\ e[s_type] \in {s_link, s_tile, s_task, s_index}
                /\ e[s_type] = s_link <=> s_link_type \in DOMAIN e
                /\ e[s_type] = s_index => FromIndexMapping(last.graph, p)
                /\ e[s_type] = s_tile =>
                      \E r \in Records : r.type = s_template /\ r.guid = p[1]
                /\ e[s_type] = s_task =>
                      \E r \in Records : r.type = s_formflow /\ r.guid = p[1]

\* the built graph holds a tile's edge, a bound property's edge and a test's
C18_Witness ==
    /\ Completed
    /\ \E e \in EdgeBags(last.graph) : e[s_type] = s_tile
    /\ \E e \in EdgeBags(last.graph) : e[s_type] = s_link /\ e[s_link_type] = s_bound
    /\ \E e \in EdgeBags(last.graph) : e[s_type] = s_link
                                        /\ e[s_link_type] = s_business_test

\* C19 as claimed, on the graph a build ends with: every key that a record
\* gave a node of its own kind to still has that kind, whatever other records
\* produced the same key.
C19_KindNeverChanges ==
    Completed =>
        \A r \in Records :
            HasNode(r) =>
                /\ NodeOf(r)[1] \in DOMAIN last.graph.node
                /\ s_type \in DOMAIN last.graph.node[NodeOf(r)[1]]
                /\ last.graph.node[NodeOf(r)[1]][s_type] = NodeOf(r)[2]

\* the last settings command was '$$ignore=entity, test'
IgnoredTwo == last.op = "special_command" /\ last.query = q_ignore_two

\* C20 as claimed, for selection: a selection made right after the command
\* '$$ignore=entity, test' returns no node of type entity and none of type
\* test.
C20_IgnoreListWithCommas ==
    [][(IgnoredTwo /\ last'.op = "select_nodes")
          => \A i \in 1..Len(nodes') :
                \/ s_type \notin DOMAIN nodes'[i][2]
                \/ nodes'[i][2][s_type] \notin {s_entity, s_test}]_vars

-----------------------------------------------------------------------------
(* GlowObject: attribute access through the field mapping *)

\* Python values as the reads return them: a str, None, a dict, or the
\* AttributeError that leaves the read
Str(s) == <<"str", s>>
None == <<"None">>
Dict(d) == <<"dict", d>>
AttributeError == <<"AttributeError">>

IsStr(v) == v[1] = "str"

\* GlowObject(mapping, values)
GlowObject(mapping, values) ==
    [type |-> mapping.type, fields |-> mapping.fields, values |-> values]

\* a mutant of __getattr__: the guid is returned as the record holds it
getattr_AsStored(object, attr) ==
    LET field == IF attr \in DOMAIN object.fields THEN object.fields[attr] ELSE attr IN
    IF field \in DOMAIN object.values THEN object.values[field] ELSE None

\* GlowObject.__getattr__(attr), which Python calls for the names that are
\* neither attributes of the instance nor of its class; result.lower() of a
\* value that is not a str raises
__getattr__(object, attr) ==
    LET field == IF attr \in DOMAIN object.fields THEN object.fields[attr] ELSE attr IN
    IF field \in DOMAIN object.values
    THEN LET result == object.values[field] IN
         IF attr = "guid"
         THEN IF IsStr(result) THEN Str(lower(result[2])) ELSE AttributeError
         ELSE result
    ELSE None

\* the attributes __init__ gives the instance
InstanceAttributes == {"type", "fields", "values"}

\* getattr(object, attr): the instance's own attributes are found first
getattr(object, attr) ==
    IF attr = "type" THEN Str(object.type)
    ELSE IF attr = "fields" THEN Dict(object.fields)
    ELSE IF attr = "values" THEN Dict(object.values)
    ELSE __getattr__(object, attr)

s_TiC == <<"T","i","C">>
s_a   == <<"a">>

\* the mappings of the settings: friendly name -> raw field
Mappings ==
    {[type |-> s_template, fields |-> [guid |-> "Id", name |-> "Name"]],
     [type |-> s_formflow, fields |-> [guid |-> "Id", entity |-> "type"]]}

RawFields == {"Id", "Name", "type", "guid"}

RawValues == {Str(s_TiC), Str(s_a), None}

\* the raw records: any of the raw fields, each holding a str or null
RawRecords ==
    UNION {[fs -> RawValues] : fs \in SUBSET RawFields}

AttributeNames == {"guid", "name", "entity", "type", "values", "Id", "Name", "bar"}

InitObject ==
    /\ \E mapping \in Mappings, values \in RawRecords :
          last = [op |-> "GlowObject", object |-> GlowObject(mapping, values)]
    /\ GLOW_GRAPH = EmptyGraph
    /\ COMMAND_LOOKUP = << >>
    /\ InitSession
    /\ InitSettings
    /\ nodes = << >>
    /\ func = "successors"
    /\ stack = << >>
    /\ seen = << >>
    /\ out = << >>

\* value = object.attr
ReadAttribute(attr) ==
    /\ last.op \in {"GlowObject", "getattr"}
    /\ last' = [op     |-> "getattr",
                object |-> last.object,
                attr   |-> attr,
                result |-> getattr(last.object, attr),
                before |-> last.object.values]
    /\ UNCHANGED <<session, GLOW_GRAPH, COMMAND_LOOKUP, MAX_LEVEL, IGNORE_TYPES,
                   EDGE_MATCH, nodes, func, stack, seen, out>>

NextObject == \E attr \in AttributeNames : ReadAttribute(attr)

SpecObject == InitObject /\ [][NextObject]_vars

\* an attribute has been read
Read == last.op = "getattr"

\* the raw field that the mapping gives for the name, or the name itself
RawField(object, attr) ==
    IF attr \in DOMAIN object.fields THEN object.fields[attr] ELSE attr

\* what the record holds under the raw field of the name, None if nothing
Held(object, attr) ==
    IF RawField(object, attr) \in DOMAIN object.values
    THEN object.values[RawField(object, attr)]
    ELSE None

Lowered(v) == IF IsStr(v) THEN Str([i \in 1..Len(v[2]) |-> LowerChar(v[2][i])]) ELSE v

-----------------------------------------------------------------------------
(* Properties of the handlers *)

\* the number of parallel edges from u to v
Parallel(graph, u, v) ==
    IF <<u, v>> \in DOMAIN graph.edge THEN Len(graph.edge[<<u, v>>]) ELSE 0

\* the key a show form, jump or run command reference of a formflow points to
Target(formflow, kind, target) ==
    IF kind = "RUN"
    THEN LET owners == IF target \in DOMAIN COMMAND_LOOKUP
                       THEN Range(COMMAND_LOOKUP[target]) ELSE {}
             owner  == IF owners = {} \/ formflow.entity \in owners
                       THEN formflow.entity ELSE COMMAND_LOOKUP[target][1]
         IN  target \o <<"-">> \o (IF owner = << >> THEN s_None ELSE owner)
    ELSE [i \in 1..Len(target) |-> LowerChar(target[i])]

KindOfTag ==
    [ShowFormActivity |-> "FRM", JumpToActivity |-> "JMP", RunCommandActivity |-> "RUN"]

\* the references to key v in the task list and in the embedded document
TaskRefs(formflow, v) ==
    {i \in 1..Len(formflow.tasks) :
        LET task == formflow.tasks[i] IN
        /\ task.task \in {"FRM", "JMP", "RUN"}
        /\ task.target # << >>
        /\ Target(formflow, task.task, task.target) = v}

MarkupRefs(formflow, v) ==
    {i \in 1..Len(formflow.data) :
        LET activity == formflow.data[i] IN
        Target(formflow, KindOfTag[activity.activity], activity.target) = v}

Formflows == {r \in Records : r.type = s_formflow}

\* C22: after a build that ran to its end, a formflow has, to every key, one
\* edge for each show form, jump and run command reference of its task list
\* and one more for each such reference of its embedded document: a reference
\* made in both gives two parallel edges, and neither source takes edges of
\* the other away.
C22_BothSources ==
    Completed =>
        \A r \in Formflows :
            \A v \in DOMAIN last.graph.node :
                Parallel(last.graph, r.guid, v)
                    = Cardinality(TaskRefs(r, v)) + Cardinality(MarkupRefs(r, v))

\* a formflow shows the same form from its task list and from its embedded
\* document: two parallel edges
C22_Witness ==
    /\ Completed
    /\ \E r \in Formflows :
         /\ TaskRefs(r, s_t) # {}
         /\ MarkupRefs(r, s_t) # {}
         /\ Parallel(last.graph, r.guid, s_t) = 2
         /\ Parallel(last.graph, r.guid, Reference(s_Foo, s_E)) = 0
         /\ Parallel(last.graph, r.guid, Reference(s_Approve, s_E)) = 2


EntityRecords == {r \in Records : r.type = s_entity}

\* the rules of an entity record, each with the name of its property
RulesOf(r) ==
    UNION {{<<r.properties[i][1], r.properties[i][2][j]>> :
               j \in 1..Len(r.properties[i][2])} :
           i \in 1..Len(r.properties)}

\* C23 as claimed: a build over records whose embedded documents are all
\* well-formed runs to its end whatever the discriminator codes of the rules,
\* and the graph then holds, for every rule of an entity property, commands
\* included, an edge from the property's node to each condition the rule
\* cites.
C23_RuleConditions ==
    Ran =>
        /\ (\A r \in Records : ~Malformed(r)) => ~last.raised
        /\ ~last.raised =>
              \A r \in EntityRecords :
                  \A rule \in RulesOf(r) :
                      \A k \in 1..Len(rule[2].conditionIds) :
                          Parallel(last.graph, rule[1] \o <<"-">> \o r.name,
                                   [i \in 1..Len(rule[2].conditionIds[k]) |->
                                       LowerChar(rule[2].conditionIds[k][i])]) >= 1


\* the keys the graph holds an edge to from key u
EdgeTargets(graph, u) == {v \in DOMAIN graph.node : Parallel(graph, u, v) > 0}

\* the property keys (property-owner) that a condition record and the
\* mappings of an index record refer to
ConditionReferences(r) ==
    {r.properties[i] \o <<"-">> \o r.entity : i \in 1..Len(r.properties)}

IndexReferences(r, name) ==
    {r.mappings[i][2] \o <<"-">> \o r.name :
        i \in {j \in 1..Len(r.mappings) : r.mappings[j][1] = name}}

\* C24 as claimed: after a build that ran to its end, every edge that leaves
\* the node of a condition or the node of an index ends at a property key
\* (property-owner) that the record refers to: a reference whose exact key has
\* no node has given no edge.
C24_ExactKeyOnly ==
    Completed =>
        \A r \in Records :
            /\ r.type = s_condition =>
                  EdgeTargets(last.graph, r.guid) \subseteq ConditionReferences(r)
            /\ r.type = s_index =>
                  \A i \in 1..Len(r.mappings) :
                      EdgeTargets(last.graph, upper(r.mappings[i][1]))
                          \subseteq IndexReferences(r, r.mappings[i][1])


Templates == {r \in Records : r.type = s_template}

\* the key that a citation of a template's dependencies document points to
Cited(template, dependency) ==
    IF dependency[1] = s_template
    THEN [i \in 1..Len(dependency[2]) |-> LowerChar(dependency[2][i])]
    ELSE dependency[2] \o <<"-">> \o template.entity

\* C25 as claimed: after a build that ran to its end, a template has an edge
\* to every template and to every property that its dependencies document
\* cites.
C25_DependencyEdges ==
    Completed =>
        \A r \in Templates :
            \A i \in 1..Len(r.dependencies) :
                Parallel(last.graph, r.guid, Cited(r, r.dependencies[i])) >= 1

-----------------------------------------------------------------------------
(* Properties of walk_tree: what one expansion prints *)

\* the records printed for neighbour n by the expansion of t
Emissions(t, n) == {i \in 1..Len(out) : out[i].from = t /\ out[i].node = n}

\* the neighbours the expansion of t has dealt with so far: the loop of a call
\* still on the stack has done those no longer in todo, a returned call all
Iterated(t) ==
    IF \E j \in 1..Len(stack) : stack[j].target = t
    THEN LET j == CHOOSE j \in 1..Len(stack) : stack[j].target = t IN
         neighbours(GLOW_GRAPH, func, t) \ stack[j].todo
    ELSE IF t \in SeenSet THEN neighbours(GLOW_GRAPH, func, t) ELSE {}

\* the parallel edges between t and n, in the direction of the walk
EdgesInDirection(t, n) ==
    IF func = "predecessors" THEN GLOW_GRAPH.edge[<<n, t>>] ELSE GLOW_GRAPH.edge[<<t, n>>]

\* C26: when a walk expands a node, each distinct defined, non-ignored
\* neighbour in the walk direction is printed exactly once for that expansion
\* (and not before the loop reaches it), with every parallel edge between the
\* expanded node and the neighbour: k parallel edges give k edge records,
\* taken in the direction of the walk.
C26_EachNeighbourOnce ==
    \A t \in DOMAIN GLOW_GRAPH.node :
        \A n \in neighbours(GLOW_GRAPH, func, t) :
            (HasData(GLOW_GRAPH.node[n]) /\ ~IgnoredData(GLOW_GRAPH.node[n], IGNORE_TYPES))
            => /\ Cardinality(Emissions(t, n)) = IF n \in Iterated(t) THEN 1 ELSE 0
               /\ \A i \in Emissions(t, n) :
                    /\ out[i].kind = "node"
                    /\ out[i].edges = EdgesInDirection(t, n)
                    /\ Len(out[i].edges) = Len(EdgesInDirection(t, n))

\* a walk of the predecessors of A has printed B with the two parallel edges
\* B -> A, while a single edge A -> B runs the other way
C26_Witness ==
    /\ WalkFinished
    /\ func = "predecessors"
    /\ seen[1] = s_A
    /\ <<s_A, s_B>> \in DOMAIN GLOW_GRAPH.edge
    /\ <<s_B, s_A>> \in DOMAIN GLOW_GRAPH.edge
    /\ Len(GLOW_GRAPH.edge[<<s_A, s_B>>]) = 1
    /\ Len(GLOW_GRAPH.edge[<<s_B, s_A>>]) = 2
    /\ \E i \in 1..Len(out) :
         /\ out[i].from = s_A
         /\ out[i].node = s_B
         /\ Len(out[i].edges) = 2

-----------------------------------------------------------------------------
(* walk_tree with a depth budget: which nodes a walk reaches *)

s_D == <<"D">>

MaxReachLevel == 3

ReachKeys == {s_A, s_B, s_C, s_D, s_E}

\* the edges a graph of this family may have: two routes from A to C, a chain
\* from C on, a short cut and a way back
ReachEdges ==
    <<<<s_A, s_B>>, <<s_B, s_C>>, <<s_A, s_C>>, <<s_C, s_D>>, <<s_D, s_E>>,
      <<s_B, s_D>>, <<s_E, s_A>>>>

\* every key has a record, except that E may be the end of an edge only
ReachNodeData ==
    {[k \in ReachKeys |-> IF k = s_E THEN e ELSE NodeOfType(s_property)] :
        e \in {EmptyDict, NodeOfType(s_property)}}

ReachGraphs ==
    {AddEdges(AddNodes(EmptyGraph, ReachKeys, d),
              SelectSeq(ReachEdges, LAMBDA p : p \in chosen), LinkData) :
        d \in ReachNodeData, chosen \in SUBSET Range(ReachEdges)}

ReachQueries == {s_cmd_max_level \o IntToStr(n) : n \in 1..MaxReachLevel}

InitReach ==
    /\ GLOW_GRAPH \in ReachGraphs
    /\ InitSettings
    /\ InitIdle

NextReach ==
    \/ \E q \in ReachQueries : cmd_max_level(q)
    \/ \E k \in ReachKeys : print_parents(k)
    \/ \E k \in ReachKeys : print_children(k)
    \/ WalkEmit
    \/ WalkUndefined
    \/ WalkReturn

SpecReach == InitReach /\ [][NextReach]_vars

\* the nodes at the end of a path of 1..n edges from s in the direction of the
\* walk, every node of the path between s and the end having data
RECURSIVE PathEnds(_, _)
PathEnds(s, n) ==
    IF n = 0 THEN {}
    ELSE LET nearer == PathEnds(s, n - 1)
             inner  == {s} \cup {x \in nearer : HasData(GLOW_GRAPH.node[x])}
         IN  nearer \cup UNION {neighbours(GLOW_GRAPH, func, x) : x \in inner}

Emitted == {out[i].node : i \in 1..Len(out)}

\* C27: with MAX_LEVEL = n >= 1 and no ignored types, a finished walk from s
\* has printed every node at the end of a path of at most n edges from s in
\* the direction of the walk whose intermediate nodes all have data, in
\* whatever order the neighbours were visited.
C27_ReachesAllWithinLevel ==
    (WalkFinished /\ MAX_LEVEL >= 1 /\ IGNORE_TYPES = << >>)
    => PathEnds(seen[1], MAX_LEVEL) \subseteq Emitted

-----------------------------------------------------------------------------
(* Properties of the build: the settings of the session *)

\* the step is a run of create_graph that reached its end
BuildsGraph == last' # last /\ last'.op = "create_graph" /\ ~last'.raised

\* create_graph on the records and the tables of this state, with the settings
\* the program starts with
DefaultBuild(analysed) ==
    create_graph(files, analysed,
                 BuildState(EmptyGraph, COMMAND_LOOKUP, FORMSTEP_LOOKUP, FORMFLOW_LOOKUP,
                            MODULE_LOOKUP, << >>, FALSE))

\* C28: the graph produced by a build does not depend on the interactive
\* settings: a build run with any values of IGNORE_TYPES and EDGE_MATCH (as
\* set by $$ignore and $$edges before $$regen) has the node set and the edge
\* set of a build from the same records under the default settings.
C28_BuildIgnoresSettings ==
    [][BuildsGraph =>
        \E analysed \in KindOrders :
            LET b == DefaultBuild(analysed) IN
            /\ ~b.raised
            /\ DOMAIN last'.graph.node = DOMAIN b.graph.node
            /\ last'.graph.edge = b.graph.edge]_vars

-----------------------------------------------------------------------------
(* Properties of the session: nodes without data *)

\* the step is a selection (select_nodes has run) or a step of a walk
SelectsOrWalks == last'.op = "select_nodes" \/ stack' # stack

StaysDataless ==
    \A n \in DOMAIN GLOW_GRAPH.node :
        Dataless(n) => /\ n \in DOMAIN GLOW_GRAPH'.node
                       /\ DOMAIN GLOW_GRAPH'.node[n] = {}

\* what a walk prints for a key is decided by the key having data or not
ReportedAsUndefined ==
    \A i \in 1..Len(out) :
        /\ out[i].node \in DOMAIN GLOW_GRAPH.node
        /\ out[i].kind = "undefined" <=> Dataless(out[i].node)

\* C29: a node without attribute data stays without attribute data under any
\* sequence of selections and walks (counts is never written to it), so a key
\* that one walk reports as an undefined reference is reported as an undefined
\* reference by every later walk of the same graph that reaches it.
C29_DatalessStaysDataless ==
    /\ [][SelectsOrWalks => StaysDataless]_vars
    /\ []ReportedAsUndefined

\* a selection has annotated the graph, and the walk of a selected node has
\* then reported a key without data as an undefined reference
C29_Witness ==
    /\ last.op = "select_nodes"
    /\ WalkFinished
    /\ \E n \in DOMAIN GLOW_GRAPH.node : s_counts \in DOMAIN GLOW_GRAPH.node[n]
    /\ \E i \in 1..Len(out) :
         /\ out[i].kind = "undefined"
         /\ Dataless(out[i].node)

-----------------------------------------------------------------------------
(* Properties of the build: the command table *)

Calls == last.lookups

IsAdd(i) == Calls[i].call = "add_to_command_lookup"

IsGet(i) == Calls[i].call = "get_command_entity"

\* C30: within one build every registration in the command table
\* (add_to_command_lookup) happens before the first resolution
\* (get_command_entity), so the owner returned for a command that a formflow
\* or a template tile invokes is the one the table of the whole build gives,
\* in whatever order the formflow and template records are processed.
C30_RegistrationsBeforeResolutions ==
    Ran =>
        /\ \A i, j \in 1..Len(Calls) : (IsAdd(i) /\ IsGet(j)) => i < j
        /\ \A j \in 1..Len(Calls) :
             IsGet(j) => Calls[j].result =
                         get_command_entity(COMMAND_LOOKUP, Calls[j].command, Calls[j].entity)

\* a build has registered a command of E and then resolved it to E for a
\* formflow of F and for a tile of a template of G
C30_Witness ==
    /\ Completed
    /\ \E i \in 1..Len(Calls) : IsAdd(i) /\ Calls[i].entity = s_E
    /\ \E j \in 1..Len(Calls) :
         IsGet(j) /\ Calls[j].entity = s_F /\ Calls[j].result = s_E
    /\ \E j \in 1..Len(Calls) :
         IsGet(j) /\ Calls[j].entity = s_G /\ Calls[j].result = s_E
    /\ <<s_t, Reference(s_Approve, s_E)>> \in DOMAIN GLOW_GRAPH.edge

=============================================================================
